---------------------------- MODULE Spec2Model ----------------------------
(***************************************************************************)
(* devsandbox: session lock, MITM proxy server (port binding, request      *)
(* logging, filtering), rotating log sink and sandbox composer.            *)
(***************************************************************************)
EXTENDS Integers, Sequences, FiniteSets, TLC

(***************************************************************************)
(* Bounds of the model.                                                    *)
(***************************************************************************)
NSessions == 2
NProbers == 2

Sessions == 1..NSessions
Probers == 1..NProbers

VARIABLES
    \* ---- session lock (<root>/.lock, flock(2)) ----
    rootOk,       \* the sandbox root directory exists and is accessible
    lockExists,   \* <root>/.lock exists on disk
    sPc,          \* session -> "idle" | "opened" | "held"   (position in AcquireSessionLock / handle open)
    sRes,         \* session -> "none" | "ok" | "openerr" | "lockerr"  (result of the last AcquireSessionLock)
    pPc,          \* prober -> "idle" | "opened" | "locked"  (position in IsSessionActive)
    pRes,         \* prober -> "none" | "true" | "false"     (result of the last IsSessionActive)
    \* ---- filter engine ----
    fcfg,         \* the FilterConfig in force
    decided,      \* request -> the FilterDecision last returned for it (NoDecision before the first)
    \* ---- rotating log sink on its own (RotatingFileWriter) ----
    rfw,          \* the writer: state, directory contents, current file, bytes written, limits
    rfwOps,       \* number of Write calls made so far
    rfwRet,       \* result of the last Write: [n, err]
    \* ---- proxy servers ----
    cfgPort,      \* server -> s.config.Port
    running,      \* server -> s.running
    lsn,          \* server -> s.listener: [port, open], NoListener while nil
    snk,          \* server -> s.reqLogger's sink
    stPc,         \* server -> "idle" | "binding": Start holds s.mu while binding
    stI,          \* server -> loop counter i of Start
    stPort,       \* server -> local variable port of Start
    stBase,       \* server -> s.config.Port when Start was last called
    srvErr,       \* server -> result of the last Start or Stop call
    extBound,     \* ports bound by other programs on 127.0.0.1
    \* ---- requests through the proxy ----
    rqPc,         \* request -> "new" | "forwarded" | "responding" | "done"
    rqSrv,        \* request -> the server that accepted it
    rqReq,        \* request -> its fingerprint (host, path)
    rqEntry,      \* request -> its RequestLog entry (ctx.UserData)
    rqDec,        \* request -> the filter decision taken for it
    rqFwd,        \* request -> whether it was sent upstream
    rqResp,       \* request -> the response on its way to the client: [status, body]
    rqWait,       \* request -> seconds it has been suspended on the asker
    \* ---- sandbox composer ----
    cTools,       \* the active tool adapters, in registry order
    cHost,        \* the binding sources that exist on the host
    cStage,       \* position in ComposeOrder
    cTool,        \* index of the next adapter to contribute
    cArgs,        \* the isolation argument vector: mounts in order
    \* ---- sandbox execution and the network driver ----
    nEnv,         \* the host: which programs are installed, whether iptables works
    nCmd,         \* the run: [mode, bwrapArgs, shellCmd]
    nPc,          \* position of the run
    nCaller,      \* the calling process: "running" | "waiting" | "replaced" | "returned"
    nArgv,        \* the argument vector handed to exec
    nRules,       \* the OUTPUT chain of the namespace, first rule first
    \* ---- sandbox naming ----
    gnPath,       \* the project directory given to GenerateSandboxName
    gnName,       \* the name it returned, <<>> before the first call
    \* ---- git adapter ----
    gRaw,         \* the "mode" value last given to Configure, "<nil>" when absent
    gMode,        \* Git.mode: "" before Configure, then readonly | readwrite | disabled
    gProj,        \* the project directory has a .git directory
    gHost,        \* the host's ~/.gitconfig: its lines, or NoFile
    gSafe,        \* <sandbox home>/.gitconfig.safe: its lines, or NoFile
    gOut,         \* the contribution under the current configuration: [called, bindings, env]
    mu,           \* holder of s.mu: a thread, or 0 when the mutex is free
    tOp,          \* thread -> method of Server it is executing, or "idle"
    tPc,          \* thread -> index of its next step in OpSteps
    tSaw,         \* thread -> branch taken after reading s.running
    tRunning,     \* s.running as the threads of the race model see it
    \* ---- request logger on its log directory (part_001) ----
    rlDir,        \* indices of today's log files present in the directory
    rlPc,         \* logger -> "none" | "found" | "open" | "closed"  (position in NewRequestLogger / rotate)
    rlIndex,      \* logger -> rl.fileIndex
    \* ---- RequestLogger.Log called from the connections' goroutines ----
    logVer,       \* which RequestLogger is built in: "part_001" or "filter_types"
    logMu,        \* holder of rl.mu: a connection, or 0 when the mutex is free
    logPc,        \* connection -> "idle" | "first" | "second" | "written"  (position in Log)
    logK,         \* connection -> number of its requests logged so far
    logOut,       \* the bytes that reached the stream: a sequence of half lines [conn, k, half]
    \* ---- filter engine: ask mode with the decision cache ----
    ckCfg,        \* the run's [cacheDecisions, scope, defaultAction]
    ckPc,         \* request -> "new" | "asking" | "waiting" | "done"
    ckReq,        \* request -> its fingerprint
    ckDec,        \* request -> [action, by]: the decision and where it came from
    ckCache,      \* decision-cache key -> cached action, "" when absent
    \* ---- sandbox directories and their metadata, across runs ----
    sbDirs,       \* names of the sandbox directories under the base directory
    sbMeta,       \* sandbox name -> its metadata file, NoMeta when there is none
    sbRun,        \* the Config of the run in progress, NoRun between runs
    sbNames,      \* project directory -> the sandbox names NewConfig has resolved for it
    sbClock,      \* the number of runs started so far (the time)
    \* ---- FilterRule.Validate ----
    vRule,        \* the rule under validation: [pattern, action, scope, type]
    vErr,         \* "unchecked", or the result of Validate: "" for nil, else the error
    \* ---- certificate authority of the proxy engine ----
    srvCa,        \* server -> the CA it loaded at construction, "none" before NewServer
    GoproxyCa,    \* goproxy.GoproxyCa, the package-level CA of the proxy engine
    leaves        \* leaf certificates minted: <<server, signing CA>>

lockVars == <<rootOk, lockExists, sPc, sRes, pPc, pRes>>
fltVars == <<fcfg, decided>>
rfwVars == <<rfw, rfwOps, rfwRet>>
srvVars == <<cfgPort, running, lsn, snk, stPc, stI, stPort, stBase, srvErr, extBound>>
compVars == <<cTools, cHost, cStage, cTool, cArgs>>
reqVars == <<rqPc, rqSrv, rqReq, rqEntry, rqDec, rqFwd, rqResp, rqWait>>
netVars == <<nEnv, nCmd, nPc, nCaller, nArgv, nRules>>
nameVars == <<gnPath, gnName>>
gitVars == <<gRaw, gMode, gProj, gHost, gSafe, gOut>>
raceVars == <<mu, tOp, tPc, tSaw, tRunning>>
rlVars == <<rlDir, rlPc, rlIndex>>
logVars == <<logVer, logMu, logPc, logK, logOut>>
cacheVars == <<ckCfg, ckPc, ckReq, ckDec, ckCache>>
sbVars == <<sbDirs, sbMeta, sbRun, sbNames, sbClock>>
valVars == <<vRule, vErr>>
caVars == <<srvCa, GoproxyCa, leaves>>
coreVars == <<lockVars, fltVars, rfwVars, srvVars, reqVars, compVars>>
extVars == <<netVars, nameVars, gitVars, raceVars, rlVars, logVars, cacheVars, sbVars, valVars, caVars>>
vars == <<rootOk, lockExists, sPc, sRes, pPc, pRes, fcfg, decided, rfw, rfwOps, rfwRet,
          cfgPort, running, lsn, snk, stPc, stI, stPort, stBase, srvErr, extBound,
          rqPc, rqSrv, rqReq, rqEntry, rqDec, rqFwd, rqResp, rqWait,
          cTools, cHost, cStage, cTool, cArgs,
          nEnv, nCmd, nPc, nCaller, nArgv, nRules,
          gnPath, gnName,
          gRaw, gMode, gProj, gHost, gSafe, gOut,
          mu, tOp, tPc, tSaw, tRunning,
          rlDir, rlPc, rlIndex,
          logVer, logMu, logPc, logK, logOut,
          ckCfg, ckPc, ckReq, ckDec, ckCache,
          sbDirs, sbMeta, sbRun, sbNames, sbClock,
          vRule, vErr,
          srvCa, GoproxyCa, leaves>>

(***************************************************************************)
(* flock(2): locks belong to open file descriptions.  A session's          *)
(* description holds LOCK_SH while its handle is open; a prober's holds    *)
(* LOCK_EX between its successful flock and its LOCK_UN.                   *)
(***************************************************************************)
Holders == {s \in Sessions : sPc[s] = "held"}
ExclHolders == {p \in Probers : pPc[p] = "locked"}

\* flock(fd, LOCK_SH|LOCK_NB) by session s: granted unless another description holds LOCK_EX.
FlockSharedNB_Excl(s) == ExclHolders = {} /\ Holders \ {s} = {}
FlockSharedNB(s) == ExclHolders = {}

\* flock(fd, LOCK_EX|LOCK_NB) by prober p: granted unless another description holds any lock.
FlockExclusiveNB(p) == Holders = {} /\ ExclHolders \ {p} = {}

\* os.OpenFile(lockPath, O_CREATE|O_RDWR): fails only when the root is not accessible.
OpenCreate == rootOk
\* os.OpenFile(lockPath, O_RDWR): fails when the file does not exist (or the root is not accessible).
OpenExisting == rootOk /\ lockExists

InitLock ==
    /\ rootOk \in BOOLEAN
    /\ lockExists = FALSE
    /\ sPc = [s \in Sessions |-> "idle"]
    /\ sRes = [s \in Sessions |-> "none"]
    /\ pPc = [p \in Probers |-> "idle"]
    /\ pRes = [p \in Probers |-> "none"]

\* AcquireSessionLock, lines 17-23: open or create the lock file.
AcquireOpen(s) ==
    /\ sPc[s] = "idle"
    /\ IF OpenCreate
       THEN /\ lockExists' = TRUE
            /\ sPc' = [sPc EXCEPT ![s] = "opened"]
            /\ sRes' = [sRes EXCEPT ![s] = "none"]
       ELSE /\ sRes' = [sRes EXCEPT ![s] = "openerr"]
            /\ UNCHANGED <<lockExists, sPc>>
    /\ UNCHANGED <<rootOk, pPc, pRes>>

\* AcquireSessionLock, lines 25-31: non-blocking shared lock; on failure close and return the error.
AcquireFlock(s) ==
    /\ sPc[s] = "opened"
    /\ IF FlockSharedNB(s)
       THEN /\ sPc' = [sPc EXCEPT ![s] = "held"]
            /\ sRes' = [sRes EXCEPT ![s] = "ok"]
       ELSE /\ sPc' = [sPc EXCEPT ![s] = "idle"]
            /\ sRes' = [sRes EXCEPT ![s] = "lockerr"]
    /\ UNCHANGED <<rootOk, lockExists, pPc, pRes>>

\* The holder closes the returned handle (or its process exits): its lock is released.
ReleaseLock(s) ==
    /\ sPc[s] = "held"
    /\ sPc' = [sPc EXCEPT ![s] = "idle"]
    /\ UNCHANGED <<rootOk, lockExists, sRes, pPc, pRes>>

\* IsSessionActive, lines 37-45: open the lock file; absent or unreadable means not active.
ProbeOpen(p) ==
    /\ pPc[p] = "idle"
    /\ IF OpenExisting
       THEN /\ pPc' = [pPc EXCEPT ![p] = "opened"]
            /\ pRes' = [pRes EXCEPT ![p] = "none"]
       ELSE /\ pRes' = [pRes EXCEPT ![p] = "false"]
            /\ UNCHANGED pPc
    /\ UNCHANGED <<rootOk, lockExists, sPc, sRes>>

\* IsSessionActive, lines 47-53: non-blocking exclusive lock; failure returns true (deferred close).
ProbeFlock(p) ==
    /\ pPc[p] = "opened"
    /\ IF FlockExclusiveNB(p)
       THEN /\ pPc' = [pPc EXCEPT ![p] = "locked"]
            /\ UNCHANGED pRes
       ELSE /\ pPc' = [pPc EXCEPT ![p] = "idle"]
            /\ pRes' = [pRes EXCEPT ![p] = "true"]
    /\ UNCHANGED <<rootOk, lockExists, sPc, sRes>>

\* IsSessionActive, lines 55-57: release the exclusive lock and return false.
ProbeUnlock(p) ==
    /\ pPc[p] = "locked"
    /\ pPc' = [pPc EXCEPT ![p] = "idle"]
    /\ pRes' = [pRes EXCEPT ![p] = "false"]
    /\ UNCHANGED <<rootOk, lockExists, sPc, sRes>>

(***************************************************************************)
(* Filter engine.  Strings that are matched are sequences of one-character *)
(* strings; "" is an unset field.                                          *)
(***************************************************************************)
MaxRules == 2

NoRule == 0
NoDecision == [action |-> "", rule |-> NoRule, reason |-> "", isDefault |-> FALSE]

FilterActions == {"allow", "block", "ask"}

\* The rules a configuration is drawn from: every scope, every pattern type
\* (explicit and auto-detected) and every action occurs.
RuleUniverse ==
    { [pattern |-> <<"a">>, action |-> "block", scope |-> "", type |-> "", reason |-> "no a"],
      [pattern |-> <<"*">>, action |-> "allow", scope |-> "host", type |-> "glob", reason |-> ""],
      [pattern |-> <<"a", "/", "x">>, action |-> "ask", scope |-> "url", type |-> "exact", reason |-> "ask ax"],
      [pattern |-> <<"^", "/", "?", "$">>, action |-> "block", scope |-> "path", type |-> "", reason |-> "no x"],
      [pattern |-> <<"b", "|", "a">>, action |-> "allow", scope |-> "host", type |-> "regex", reason |-> ""] }

RequestUniverse ==
    { [host |-> h, path |-> p] : h \in {<<"a">>, <<"b">>}, p \in {<<"/">>, <<"/", "x">>} }

RuleLists == UNION { [1..n -> RuleUniverse] : n \in 0..MaxRules }

\* FilterConfig.IsEnabled: filtering is enabled when DefaultAction is set.
IsEnabled(c) == c.defaultAction # ""

\* FilterConfig.GetDefaultAction.
GetDefaultAction_AlwaysAllow(c) == "allow"
GetDefaultAction(c) == IF c.defaultAction = "" THEN "allow" ELSE c.defaultAction

\* FilterRule.GetScope: the scope, host when unset.
GetScope(r) == IF r.scope = "" THEN "host" ELSE r.scope

RegexChars == {"^", "$", "|", "(", ")", "[", "]", "{", "}", "+", "\\"}

DetectPatternType_NeverRegex(r) == IF r.type # "" THEN r.type ELSE "glob"
\* FilterRule.DetectPatternType: the explicit type, else regex if the pattern
\* holds a regex indicator, else glob.
DetectPatternType(r) ==
    IF r.type # "" THEN r.type
    ELSE IF \E i \in 1..Len(r.pattern) : r.pattern[i] \in RegexChars THEN "regex"
    ELSE "glob"

\* The part of the request a rule is matched against.
Haystack(r, req) ==
    CASE GetScope(r) = "host" -> req.host
      [] GetScope(r) = "path" -> req.path
      [] GetScope(r) = "url" -> req.host \o req.path

\* Glob: * matches any run, ? matches one character, anything else itself;
\* the whole string must match.
RECURSIVE GlobMatch(_, _)
GlobMatch(p, s) ==
    IF p = <<>> THEN s = <<>>
    ELSE IF Head(p) = "*"
         THEN GlobMatch(Tail(p), s) \/ (s # <<>> /\ GlobMatch(p, Tail(s)))
         ELSE /\ s # <<>>
              /\ (Head(p) = "?" \/ Head(p) = Head(s))
              /\ GlobMatch(Tail(p), Tail(s))

\* Regex, full-match, for the patterns of RuleUniverse: alternatives separated
\* by |, each optionally anchored with ^ and $, of literals, . (any one
\* character) and x? (an optional character).
RECURSIVE SplitAlternatives(_)
SplitAlternatives(p) ==
    IF \E i \in 1..Len(p) : p[i] = "|"
    THEN LET i == CHOOSE j \in 1..Len(p) : p[j] = "|" /\ \A k \in 1..(j - 1) : p[k] # "|"
         IN  <<SubSeq(p, 1, i - 1)>> \o SplitAlternatives(SubSeq(p, i + 1, Len(p)))
    ELSE <<p>>

StripAnchors(p) ==
    LET a == IF p # <<>> /\ Head(p) = "^" THEN Tail(p) ELSE p
    IN  IF a # <<>> /\ a[Len(a)] = "$" THEN SubSeq(a, 1, Len(a) - 1) ELSE a

RECURSIVE RegexSeqMatch(_, _)
RegexSeqMatch(p, s) ==
    IF p = <<>> THEN s = <<>>
    ELSE IF Len(p) >= 2 /\ p[2] = "?"
         THEN \/ RegexSeqMatch(SubSeq(p, 3, Len(p)), s)
              \/ /\ s # <<>>
                 /\ (Head(p) = "." \/ Head(p) = Head(s))
                 /\ RegexSeqMatch(SubSeq(p, 3, Len(p)), Tail(s))
         ELSE /\ s # <<>>
              /\ (Head(p) = "." \/ Head(p) = Head(s))
              /\ RegexSeqMatch(Tail(p), Tail(s))

RegexMatch(p, s) ==
    LET alts == SplitAlternatives(p)
    IN  \E i \in 1..Len(alts) : RegexSeqMatch(StripAnchors(alts[i]), s)

\* Whether a rule matches a request.
RuleMatches(r, req) ==
    LET h == Haystack(r, req)
        ty == DetectPatternType(r)
    IN  CASE ty = "exact" -> r.pattern = h
          [] ty = "glob" -> GlobMatch(r.pattern, h)
          [] ty = "regex" -> RegexMatch(r.pattern, h)

\* Evaluate: the rules in declared order, the first match decides; with no
\* match the default action, marked is_default.
RECURSIVE EvaluateFrom(_, _, _)
EvaluateFrom(c, req, i) ==
    IF i > Len(c.rules)
    THEN [action |-> GetDefaultAction(c), rule |-> NoRule, reason |-> "default action", isDefault |-> TRUE]
    ELSE IF RuleMatches(c.rules[i], req)
         THEN [action |-> c.rules[i].action, rule |-> i, reason |-> c.rules[i].reason, isDefault |-> FALSE]
         ELSE EvaluateFrom(c, req, i + 1)

Evaluate(c, req) == EvaluateFrom(c, req, 1)

InitFilter ==
    /\ fcfg \in [defaultAction : FilterActions, rules : RuleLists]
    /\ decided = [q \in RequestUniverse |-> NoDecision]

\* One invocation of the engine on a request; the decision is recorded.
EvaluateRequest(q) ==
    /\ IsEnabled(fcfg)
    /\ decided' = [decided EXCEPT ![q] = Evaluate(fcfg, q)]
    /\ UNCHANGED fcfg

(***************************************************************************)
(* Rotating log sink (RotatingFileWriter).  The directory is the sequence  *)
(* of its matching files in ascending modification time; a file is         *)
(* [idx, bytes, recs]: the index in its name, the bytes written to it and  *)
(* the payloads it holds.                                                  *)
(***************************************************************************)
MaxWrites == 4
MaxPreexisting == 2
MaxKeep == 2
MaxSinkSize == 2
MaxPayload == 3

SetMax(S) == CHOOSE x \in S : \A y \in S : y <= x

\* The index of the next file: 1 + the largest index present.
FindNextIndex(files) == 1 + SetMax({0} \cup {files[i].idx : i \in 1..Len(files)})

\* Delete the oldest files until at most maxFiles remain.
PruneOldFiles_KeepCurrent(files, maxFiles) ==
    IF Len(files) > maxFiles THEN SubSeq(files, Len(files), Len(files)) ELSE files
PruneOldFiles_KeepOldest(files, maxFiles) ==
    IF Len(files) > maxFiles THEN SubSeq(files, 1, maxFiles) ELSE files
PruneOldFiles(files, maxFiles) ==
    IF Len(files) > maxFiles
    THEN SubSeq(files, Len(files) - maxFiles + 1, Len(files))
    ELSE files

\* rotate: close the current stream, open the next file, then prune.
SinkRotate(sk) ==
    LET idx == FindNextIndex(sk.files)
        opened == Append(sk.files, [idx |-> idx, bytes |-> 0, recs |-> <<>>])
    IN  [sk EXCEPT !.files = PruneOldFiles(opened, sk.maxFiles), !.cur = idx, !.written = 0]

\* NewRotatingFileWriter: the writer on a directory, its first file open.
NewRotatingFileWriter(dirFiles, maxSize, maxFiles) ==
    SinkRotate([st |-> "open", files |-> dirFiles, cur |-> 0, written |-> 0,
                maxSize |-> maxSize, maxFiles |-> maxFiles])

AppendToCurrent(files, cur, rec, n) ==
    [i \in 1..Len(files) |->
        IF files[i].idx = cur
        THEN [files[i] EXCEPT !.bytes = @ + n, !.recs = Append(@, rec)]
        ELSE files[i]]

\* Write(bytes): fails once closed; rotates first when the payload would
\* take the current file past max_size; then writes the whole payload.
SinkWriteFails_Never(sk) == FALSE
SinkWriteFails(sk) == sk.st # "open"
SinkWrite_NoRotate(sk, rec, n) ==
    IF SinkWriteFails(sk) THEN sk
    ELSE [sk EXCEPT !.files = AppendToCurrent(sk.files, sk.cur, rec, n),
                    !.written = sk.written + n]
SinkWrite(sk, rec, n) ==
    IF SinkWriteFails(sk) THEN sk
    ELSE LET s1 == IF sk.written + n > sk.maxSize THEN SinkRotate(sk) ELSE sk
         IN  [s1 EXCEPT !.files = AppendToCurrent(s1.files, s1.cur, rec, n),
                        !.written = s1.written + n]

\* Close: flush and close the stream.
SinkClose(sk) == [sk EXCEPT !.st = "closed"]

\* Files left in the directory by earlier runs.
Preexisting(k) == [i \in 1..k |-> [idx |-> i, bytes |-> 1, recs |-> <<0>>]]

InitSink ==
    /\ \E k \in 0..MaxPreexisting, ms \in 1..MaxSinkSize, mf \in 1..MaxKeep :
          rfw = [st |-> "new", files |-> Preexisting(k), cur |-> 0, written |-> 0,
                 maxSize |-> ms, maxFiles |-> mf]
    /\ rfwOps = 0
    /\ rfwRet = [n |-> 0, err |-> FALSE]

RfwNew ==
    /\ rfw.st = "new"
    /\ rfw' = NewRotatingFileWriter(rfw.files, rfw.maxSize, rfw.maxFiles)
    /\ UNCHANGED <<rfwOps, rfwRet>>

RfwWrite(n) ==
    /\ rfw.st # "new"
    /\ rfwOps < MaxWrites
    /\ rfw' = SinkWrite(rfw, rfwOps + 1, n)
    /\ rfwOps' = rfwOps + 1
    /\ rfwRet' = IF SinkWriteFails(rfw) THEN [n |-> 0, err |-> TRUE] ELSE [n |-> n, err |-> FALSE]

RfwClose ==
    /\ rfw.st = "open"
    /\ rfw' = SinkClose(rfw)
    /\ UNCHANGED <<rfwOps, rfwRet>>

(***************************************************************************)
(* Proxy server: Start, Stop and the port search.                          *)
(***************************************************************************)
NServers == 2
Servers == 1..NServers

\* The number of ports Start tries.
MaxPortRetries == 2
\* The port the servers are configured with; 0 asks the system for any free port.
BasePort == 18084
ConfigPorts == {0, BasePort}
\* The ports the system hands out for port 0.
EphemeralPorts == {32768, 32769}
\* The ports other programs may hold.
ExtPorts == BasePort..(BasePort + MaxPortRetries - 1)

DefaultMaxLogSize == 10485760
DefaultMaxLogFiles == 5

NoListener == [port |-> -1, open |-> FALSE]

PortsInUse == extBound \cup {lsn[s].port : s \in {t \in Servers : lsn[t].open}}

\* net.Listen("tcp", "127.0.0.1:<port>"): the outcomes the system can produce.
\* Port 0 binds a free port of the system's choice; a port in use gives
\* EADDRINUSE; any attempt may fail with another error.
NetListen(port) ==
    {[kind |-> "error", port |-> -1]} \cup
    IF port = 0
    THEN IF EphemeralPorts \ PortsInUse = {}
         THEN {[kind |-> "inuse", port |-> -1]}
         ELSE {[kind |-> "ok", port |-> q] : q \in EphemeralPorts \ PortsInUse}
    ELSE IF port \in PortsInUse
         THEN {[kind |-> "inuse", port |-> -1]}
         ELSE {[kind |-> "ok", port |-> port]}

\* isAddrInUse: the error is EADDRINUSE.
isAddrInUse_Always(o) == TRUE
isAddrInUse(o) == o.kind = "inuse"

\* Start, line 352: the loop condition i < MaxPortRetries.
LoopContinues_OneMore(i) == i <= MaxPortRetries
LoopContinues(i) == i < MaxPortRetries

\* Start, line 343: the server is already running.
AlreadyRunning_Never(s) == FALSE
AlreadyRunning(s) == running[s]

\* Server.Port.
Port(s) == cfgPort[s]

\* Server.IsRunning.
IsRunning(s) == running[s]

InitServers(p) ==
    /\ cfgPort = [s \in Servers |-> p]
    /\ running = [s \in Servers |-> FALSE]
    /\ lsn = [s \in Servers |-> NoListener]
    /\ snk = [s \in Servers |-> NewRotatingFileWriter(<<>>, DefaultMaxLogSize, DefaultMaxLogFiles)]
    /\ stPc = [s \in Servers |-> "idle"]
    /\ stI = [s \in Servers |-> 0]
    /\ stPort = [s \in Servers |-> p]
    /\ stBase = [s \in Servers |-> p]
    /\ srvErr = [s \in Servers |-> "none"]
    /\ extBound = {}

\* Start, lines 340-350: take the mutex; refuse when running; else begin the search.
StartBegin(s) ==
    /\ stPc[s] = "idle"
    /\ IF AlreadyRunning(s)
       THEN /\ srvErr' = [srvErr EXCEPT ![s] = "already running"]
            /\ UNCHANGED <<stPc, stI, stPort, stBase>>
       ELSE /\ stPc' = [stPc EXCEPT ![s] = "binding"]
            /\ stI' = [stI EXCEPT ![s] = 0]
            /\ stPort' = [stPort EXCEPT ![s] = cfgPort[s]]
            /\ stBase' = [stBase EXCEPT ![s] = cfgPort[s]]
            /\ srvErr' = [srvErr EXCEPT ![s] = "none"]
    /\ UNCHANGED <<cfgPort, running, lsn, snk, extBound>>

\* Start, lines 352-398: one pass of the loop, and on success the rest of Start.
StartListen(s) ==
    /\ stPc[s] = "binding"
    /\ \E o \in NetListen(stPort[s]) :
          IF o.kind = "ok"
          THEN /\ cfgPort' = [cfgPort EXCEPT ![s] = stPort[s]]
               /\ lsn' = [lsn EXCEPT ![s] = [port |-> o.port, open |-> TRUE]]
               /\ running' = [running EXCEPT ![s] = TRUE]
               /\ stPc' = [stPc EXCEPT ![s] = "idle"]
               /\ srvErr' = [srvErr EXCEPT ![s] = "ok"]
               /\ UNCHANGED <<stI, stPort>>
          ELSE IF ~isAddrInUse(o)
          THEN /\ stPc' = [stPc EXCEPT ![s] = "idle"]
               /\ srvErr' = [srvErr EXCEPT ![s] = "listen failed"]
               /\ UNCHANGED <<cfgPort, lsn, running, stI, stPort>>
          ELSE /\ stI' = [stI EXCEPT ![s] = @ + 1]
               /\ stPort' = [stPort EXCEPT ![s] = @ + 1]
               /\ IF LoopContinues(stI[s] + 1)
                  THEN UNCHANGED <<stPc, srvErr>>
                  ELSE /\ stPc' = [stPc EXCEPT ![s] = "idle"]
                       /\ srvErr' = [srvErr EXCEPT ![s] = "no available port"]
               /\ UNCHANGED <<cfgPort, lsn, running>>
    /\ UNCHANGED <<snk, stBase, extBound>>

\* Stop: nothing when not running; else clear the flag, close the listener,
\* wait for the serve goroutine and close the request logger.
Stop(s) ==
    /\ stPc[s] = "idle"
    /\ IF ~running[s]
       THEN /\ srvErr' = [srvErr EXCEPT ![s] = "stop: not running"]
            /\ UNCHANGED <<running, lsn, snk>>
       ELSE /\ running' = [running EXCEPT ![s] = FALSE]
            /\ lsn' = [lsn EXCEPT ![s].open = FALSE]
            /\ snk' = [snk EXCEPT ![s] = SinkClose(@)]
            /\ srvErr' = [srvErr EXCEPT ![s] = "stopped"]
    /\ UNCHANGED <<cfgPort, stPc, stI, stPort, stBase, extBound>>

\* Another program binds or releases a port.
ExtBind(q) ==
    /\ q \notin PortsInUse
    /\ extBound' = extBound \cup {q}
    /\ UNCHANGED <<cfgPort, running, lsn, snk, stPc, stI, stPort, stBase, srvErr>>

ExtRelease(q) ==
    /\ q \in extBound
    /\ extBound' = extBound \ {q}
    /\ UNCHANGED <<cfgPort, running, lsn, snk, stPc, stI, stPort, stBase, srvErr>>

(***************************************************************************)
(* A request through the proxy: captured, filtered, forwarded (or          *)
(* answered 403), and logged with its response.                            *)
(***************************************************************************)
NRequests == 2
Requests == 1..NRequests

NoRequest == [host |-> <<>>, path |-> <<>>]
NoEntry == [method |-> "", url |-> <<>>, status |-> 0, error |-> ""]
NoResponse == [status |-> 0, body |-> ""]

\* The filter configurations a proxy run is started with.
ProxyFilterConfigs ==
    { [defaultAction |-> "", rules |-> <<>>],
      [defaultAction |-> "allow",
       rules |-> <<[pattern |-> <<"a">>, action |-> "block", scope |-> "", type |-> "", reason |-> "no a"]>>],
      [defaultAction |-> "block", rules |-> <<>>] }

\* RequestLogger.LogRequest: the entry with method and URL.
LogRequest(q) == [method |-> "GET", url |-> q.host \o q.path, status |-> 0, error |-> ""]

\* RequestLogger.LogResponse: the status, or "no response" when there is none.
LogResponse(entry, resp) ==
    IF resp.status = 0
    THEN [entry EXCEPT !.error = "no response"]
    ELSE [entry EXCEPT !.status = resp.status]

\* The bytes of one serialized entry: the JSON object and a newline.
LogLineSize(entry) == Len(entry.url) + 1

\* RequestLogger.Log: one line written to the sink; a failed write changes nothing.
Log(sk, r, entry) == SinkWrite(sk, [req |-> r, entry |-> entry], LogLineSize(entry))

InitRequests ==
    /\ rqPc = [r \in Requests |-> "new"]
    /\ rqSrv = [r \in Requests |-> 0]
    /\ rqReq = [r \in Requests |-> NoRequest]
    /\ rqEntry = [r \in Requests |-> NoEntry]
    /\ rqDec = [r \in Requests |-> NoDecision]
    /\ rqFwd = [r \in Requests |-> FALSE]
    /\ rqResp = [r \in Requests |-> NoResponse]
    /\ rqWait = [r \in Requests |-> 0]

\* A decision put into effect: block answers 403 with the reason, allow goes
\* upstream, ask suspends the request on the asker.
Decide(r, dec) ==
    /\ rqDec' = [rqDec EXCEPT ![r] = dec]
    /\ rqWait' = [rqWait EXCEPT ![r] = 0]
    /\ CASE dec.action = "block" ->
              /\ rqResp' = [rqResp EXCEPT ![r] = [status |-> 403, body |-> dec.reason]]
              /\ rqPc' = [rqPc EXCEPT ![r] = "responding"]
              /\ UNCHANGED rqFwd
         [] dec.action = "ask" ->
              /\ rqPc' = [rqPc EXCEPT ![r] = "asking"]
              /\ UNCHANGED <<rqFwd, rqResp>>
         [] OTHER ->
              /\ rqFwd' = [rqFwd EXCEPT ![r] = TRUE]
              /\ rqPc' = [rqPc EXCEPT ![r] = "forwarded"]
              /\ UNCHANGED rqResp

\* The request handlers: capture the request (setupLogging, OnRequest), then
\* consult the filter and put its decision into effect.
ReqReceive(r, s, q) ==
    /\ rqPc[r] = "new"
    /\ lsn[s].open
    /\ Decide(r, IF IsEnabled(fcfg) THEN Evaluate(fcfg, q) ELSE NoDecision)
    /\ rqSrv' = [rqSrv EXCEPT ![r] = s]
    /\ rqReq' = [rqReq EXCEPT ![r] = q]
    /\ rqEntry' = [rqEntry EXCEPT ![r] = LogRequest(q)]
    /\ UNCHANGED srvVars

\* The upstream answers, or the round trip fails and there is no response.
ReqUpstream(r) ==
    /\ rqPc[r] = "forwarded"
    /\ \E st \in {200, 0} : rqResp' = [rqResp EXCEPT ![r] = [status |-> st, body |-> "upstream"]]
    /\ rqPc' = [rqPc EXCEPT ![r] = "responding"]
    /\ UNCHANGED <<rqSrv, rqReq, rqEntry, rqDec, rqFwd, rqWait>>
    /\ UNCHANGED srvVars

\* FilterConfig.GetAskTimeout: the configured seconds, 30 when unset.
DefaultAskTimeout == 30
GetAskTimeout_Unset(c) == c.askTimeout
GetAskTimeout(c) == IF c.askTimeout <= 0 THEN DefaultAskTimeout ELSE c.askTimeout

\* A second passes while the asker has not answered and the deadline is ahead.
AskTick(r) ==
    /\ rqPc[r] = "asking"
    /\ rqWait[r] < GetAskTimeout(fcfg)
    /\ rqWait' = [rqWait EXCEPT ![r] = @ + 1]
    /\ UNCHANGED <<rqPc, rqSrv, rqReq, rqEntry, rqDec, rqFwd, rqResp>>
    /\ UNCHANGED srvVars

\* The asker answers allow or block before the deadline.
AskAnswer(r, a) ==
    /\ rqPc[r] = "asking"
    /\ rqWait[r] < GetAskTimeout(fcfg)
    /\ Decide(r, [action |-> a, rule |-> rqDec[r].rule, reason |-> "asker", isDefault |-> FALSE])
    /\ UNCHANGED <<rqSrv, rqReq, rqEntry>>
    /\ UNCHANGED srvVars

\* The deadline passes: the fallback decision is the configured default.
AskTimeout(r) ==
    /\ rqPc[r] = "asking"
    /\ rqWait[r] >= GetAskTimeout(fcfg)
    /\ Decide(r, [action |-> GetDefaultAction(fcfg), rule |-> NoRule, reason |-> "timeout", isDefault |-> TRUE])
    /\ UNCHANGED <<rqSrv, rqReq, rqEntry>>
    /\ UNCHANGED srvVars

\* setupLogging, OnResponse: complete the entry and persist it; a failed
\* write is only reported on stderr.
ReqLogResponse(r) ==
    /\ rqPc[r] = "responding"
    /\ LET entry == LogResponse(rqEntry[r], rqResp[r])
       IN  /\ rqEntry' = [rqEntry EXCEPT ![r] = entry]
           /\ snk' = [snk EXCEPT ![rqSrv[r]] = Log(@, r, entry)]
    /\ rqPc' = [rqPc EXCEPT ![r] = "done"]
    /\ UNCHANGED <<rqSrv, rqReq, rqDec, rqFwd, rqResp, rqWait>>
    /\ UNCHANGED <<cfgPort, running, lsn, stPc, stI, stPort, stBase, srvErr, extBound>>

(***************************************************************************)
(* Sandbox composer: the mounts of the isolation argument vector.          *)
(* Paths are sequences of components; a mount is [flag, src, dest, origin]. *)
(***************************************************************************)
MaxTools == 2

Home == <<"home">>
Project == <<"proj">>
SandboxHome == <<"sandbox-home">>

\* The block list: directories are overlaid with --tmpfs, files with
\* --bind /dev/null.
BlockedDirs == {Home \o <<".ssh">>, Home \o <<".aws">>, Home \o <<".gnupg">>,
                Home \o <<".config", "gh">>}
BlockedFiles == {Project \o <<".env">>, Project \o <<".envrc">>}
BlockList == <<Home \o <<".ssh">>, Home \o <<".aws">>, Home \o <<".gnupg">>,
               Home \o <<".config", "gh">>, Project \o <<".env">>, Project \o <<".envrc">>>>

Binding(src, dest, ro, opt) == [src |-> src, dest |-> dest, readOnly |-> ro, optional |-> opt]

\* OhMyPosh.Bindings.
OhMyPoshBindings ==
    << Binding(Home \o <<".config", "ohmyposh">>, <<>>, TRUE, TRUE),
       Binding(Home \o <<".poshthemes">>, <<>>, TRUE, TRUE) >>

\* Git.Bindings in readwrite mode.
GitReadWriteBindings ==
    << Binding(Home \o <<".gitconfig">>, <<>>, FALSE, TRUE),
       Binding(Home \o <<".git-credentials">>, <<>>, TRUE, TRUE),
       Binding(Home \o <<".ssh">>, <<>>, TRUE, TRUE),
       Binding(Home \o <<".gnupg">>, <<>>, TRUE, TRUE) >>

\* Misconfigured adapters: one binds a key file and an env file directly,
\* one binds the whole host home and the project's parent.
KeyFileBindings ==
    << Binding(Home \o <<".ssh", "id_rsa">>, <<>>, FALSE, FALSE),
       Binding(Project \o <<".env">>, <<>>, FALSE, FALSE) >>
WholeHomeBindings ==
    << Binding(Home, <<>>, FALSE, FALSE),
       Binding(SandboxHome \o <<"keys">>, Home \o <<".aws">>, FALSE, FALSE) >>

ToolUniverse == {OhMyPoshBindings, GitReadWriteBindings, KeyFileBindings, WholeHomeBindings}

\* Sources that may or may not exist on the host; every other source exists.
HostMaybe == {Home \o <<".ssh">>, Home \o <<".poshthemes">>, Home \o <<".gitconfig">>}
HostAlways ==
    {b.src : b \in UNION {{tb[i] : i \in 1..Len(tb)} : tb \in ToolUniverse}} \ HostMaybe

\* The paths a sandboxed program may look at.
PathUniverse ==
    {BlockList[i] : i \in 1..Len(BlockList)} \cup
    {Home \o <<".ssh", "id_rsa">>, Home \o <<".aws", "credentials">>,
     Home \o <<".gitconfig">>, Home, Project, Project \o <<"main.go">>}

IsPrefix(a, b) == Len(a) <= Len(b) /\ SubSeq(b, 1, Len(a)) = a

\* The order of the composer's stages.
ComposeOrder_BlockFirst == <<"base", "project", "block", "tools", "done">>
ComposeOrder == <<"base", "project", "tools", "block", "done">>

Stage == ComposeOrder[cStage]

Mount(flag, src, dest, origin) == [flag |-> flag, src |-> src, dest |-> dest, origin |-> origin]

\* Step 1: base isolation mounts.
BaseMounts ==
    << Mount("--proc", <<>>, <<"proc">>, "base"),
       Mount("--dev", <<>>, <<"dev">>, "base"),
       Mount("--tmpfs", <<>>, <<"tmp">>, "base"),
       Mount("--ro-bind", <<"usr">>, <<"usr">>, "base"),
       Mount("--ro-bind", <<"etc">>, <<"etc">>, "base") >>

\* Step 2: the project at its host path, the sandbox home at the real HOME path.
ProjectMounts ==
    << Mount("--bind", Project, Project, "project"),
       Mount("--bind", SandboxHome, Home, "project") >>

\* Step 3: an adapter's bindings, optional ones with a missing source dropped;
\* a binding without dest is mounted at its source path.
BindingMount(b) ==
    Mount(IF b.readOnly THEN "--ro-bind" ELSE "--bind", b.src,
          IF b.dest = <<>> THEN b.src ELSE b.dest, "tool")
Kept(b) == ~(b.optional /\ b.src \notin cHost)
RECURSIVE ToolMounts(_)
ToolMounts(bs) ==
    IF bs = <<>> THEN <<>>
    ELSE (IF Kept(Head(bs)) THEN <<BindingMount(Head(bs))>> ELSE <<>>) \o ToolMounts(Tail(bs))

\* Step 4: the block-list overlays.
BlockMount(path) ==
    IF path \in BlockedDirs
    THEN Mount("--tmpfs", <<>>, path, "block")
    ELSE Mount("--bind", <<"dev", "null">>, path, "block")
BlockMounts == [i \in 1..Len(BlockList) |-> BlockMount(BlockList[i])]

\* What the sandbox primitive makes of the vector: mounts are applied in
\* order, so a path shows the last mount at it or at one of its ancestors.
Covering(args, path) == {i \in 1..Len(args) : IsPrefix(args[i].dest, path)}
EffectiveMount(args, path) ==
    LET c == Covering(args, path)
    IN  IF c = {} THEN Mount("", <<>>, <<>>, "none")
        ELSE args[CHOOSE i \in c : \A j \in c : j <= i]

RECURSIVE SeqsUpTo(_, _)
SeqsUpTo(S, n) ==
    IF n = 0 THEN {<<>>}
    ELSE LET shorter == SeqsUpTo(S, n - 1)
         IN  shorter \cup {Append(q, x) : q \in shorter, x \in S}

InitComposer ==
    /\ cTools \in SeqsUpTo(ToolUniverse, MaxTools)
    /\ cHost \in {HostAlways \cup m : m \in SUBSET HostMaybe}
    /\ cStage = 1
    /\ cTool = 1
    /\ cArgs = <<>>

ComposeBase ==
    /\ Stage = "base"
    /\ cArgs' = cArgs \o BaseMounts
    /\ cStage' = cStage + 1
    /\ UNCHANGED <<cTools, cHost, cTool>>

ComposeProject ==
    /\ Stage = "project"
    /\ cArgs' = cArgs \o ProjectMounts
    /\ cStage' = cStage + 1
    /\ UNCHANGED <<cTools, cHost, cTool>>

\* One pass of the loop over the adapters; the stage ends after the last one.
ComposeTool ==
    /\ Stage = "tools"
    /\ IF cTool > Len(cTools)
       THEN /\ cStage' = cStage + 1
            /\ UNCHANGED <<cArgs, cTool>>
       ELSE /\ cArgs' = cArgs \o ToolMounts(cTools[cTool])
            /\ cTool' = cTool + 1
            /\ UNCHANGED cStage
    /\ UNCHANGED <<cTools, cHost>>

ComposeBlock ==
    /\ Stage = "block"
    /\ cArgs' = cArgs \o BlockMounts
    /\ cStage' = cStage + 1
    /\ UNCHANGED <<cTools, cHost, cTool>>


(***************************************************************************)
(* Running the sandbox primitive: Exec replaces the process, ExecWithPasta *)
(* runs it inside the network helper and waits.                            *)
(***************************************************************************)
GatewayIP == "10.0.2.2"
AcceptGateway == [target |-> "ACCEPT", dest |-> GatewayIP]
RejectAll == [target |-> "REJECT", dest |-> "any"]

\* The runs: bwrap arguments and shell command as built by the composer.
RunUniverse ==
    {[mode |-> m, bwrapArgs |-> a, shellCmd |-> c] :
        m \in {"direct", "proxy"},
        a \in {<<"--unshare-user">>, <<"--unshare-user", "--die-with-parent">>},
        c \in {<<"bash">>, <<"bash", "-c", "make">>}}

\* The hosts: which of pasta and bwrap are on PATH, and whether each
\* iptables command of the wrapper script succeeds inside the namespace.
HostUniverse == [pasta : BOOLEAN, bwrap : BOOLEAN, iptAccept : BOOLEAN, iptReject : BOOLEAN]

\* ExecWithPasta, line 62: the wrapper script, its commands separated by ";".
WrapperScript == <<"iptables -I OUTPUT -d 10.0.2.2 -j ACCEPT 2>/dev/null",
                   "iptables -A OUTPUT -j REJECT 2>/dev/null",
                   "exec \"$@\"">>

\* Exec, lines 24-28.
ExecArgv(cmd) == <<"bwrap">> \o cmd.bwrapArgs \o <<"--">> \o cmd.shellCmd

\* ExecWithPasta, lines 64-73.
PastaArgv(cmd) ==
    <<"--config-net", "--map-host-loopback", GatewayIP, "-f", "--", "sh", "-c">>
        \o <<WrapperScript>> \o <<"_", "bwrap">> \o cmd.bwrapArgs \o <<"--">> \o cmd.shellCmd

InitNet ==
    /\ nEnv \in HostUniverse
    /\ nCmd \in RunUniverse
    /\ nPc = "start"
    /\ nCaller = "running"
    /\ nArgv = <<>>
    /\ nRules = <<>>

\* Exec: look bwrap up, then syscall.Exec, which replaces the process.
Exec ==
    /\ nPc = "start" /\ nCmd.mode = "direct"
    /\ IF ~nEnv.bwrap
       THEN /\ nPc' = "failed"
            /\ nCaller' = "returned"
            /\ UNCHANGED nArgv
       ELSE /\ nArgv' = ExecArgv(nCmd)
            /\ nCaller' = "replaced"
            /\ nPc' = "sandboxed"
    /\ UNCHANGED <<nEnv, nCmd, nRules>>

\* ExecWithPasta up to cmd.Run: look pasta and bwrap up, start pasta as a
\* child and wait for it.
ExecWithPasta ==
    /\ nPc = "start" /\ nCmd.mode = "proxy"
    /\ IF ~nEnv.pasta \/ ~nEnv.bwrap
       THEN /\ nPc' = "failed"
            /\ nCaller' = "returned"
            /\ UNCHANGED nArgv
       ELSE /\ nArgv' = PastaArgv(nCmd)
            /\ nCaller' = "waiting"
            /\ nPc' = "wrapper-accept"
    /\ UNCHANGED <<nEnv, nCmd, nRules>>

\* The wrapper's first command: -I puts the rule at the head of the chain;
\* a failure is silent and the script goes on.
WrapperAccept ==
    /\ nPc = "wrapper-accept"
    /\ nRules' = IF nEnv.iptAccept THEN <<AcceptGateway>> \o nRules ELSE nRules
    /\ nPc' = "wrapper-reject"
    /\ UNCHANGED <<nEnv, nCmd, nCaller, nArgv>>

\* The wrapper's second command: -A puts the rule at the end of the chain.
WrapperReject ==
    /\ nPc = "wrapper-reject"
    /\ nRules' = IF nEnv.iptReject THEN Append(nRules, RejectAll) ELSE nRules
    /\ nPc' = "wrapper-exec"
    /\ UNCHANGED <<nEnv, nCmd, nCaller, nArgv>>

\* The wrapper's last command: exec "$@", the sandbox primitive.
WrapperExec ==
    /\ nPc = "wrapper-exec"
    /\ nPc' = "sandboxed"
    /\ UNCHANGED <<nEnv, nCmd, nCaller, nArgv, nRules>>

\* The sandboxed program ends; pasta -f ends with it and cmd.Run returns.
ProgramExit ==
    /\ nPc = "sandboxed"
    /\ nPc' = "exited"
    /\ nCaller' = IF nCaller = "waiting" THEN "returned" ELSE nCaller
    /\ UNCHANGED <<nEnv, nCmd, nArgv, nRules>>


(***************************************************************************)
(* Sandbox naming: GenerateSandboxName.  Strings are sequences of          *)
(* characters.                                                             *)
(***************************************************************************)
MaxPathLen == 3
ShortHashLen == 8

\* The characters project paths are built from; "é" takes two bytes in UTF-8.
PathChars == {"a", ".", "/", " ", "é"}
Paths == SeqsUpTo(PathChars, MaxPathLen)

\* The characters nonAlphanumericRe leaves alone: [a-zA-Z0-9._-].
NameChars ==
    {"a","b","c","d","e","f","g","h","i","j","k","l","m","n","o","p","q","r","s","t","u","v","w","x","y","z",
     "A","B","C","D","E","F","G","H","I","J","K","L","M","N","O","P","Q","R","S","T","U","V","W","X","Y","Z",
     "0","1","2","3","4","5","6","7","8","9",".","_","-"}

HexDigits == <<"0","1","2","3","4","5","6","7","8","9","a","b","c","d","e","f">>

\* filepath.Base: "." for the empty path, trailing separators dropped, the
\* part after the last separator, "/" when nothing else is left.
Base(path) ==
    IF path = <<>> THEN <<".">>
    ELSE LET ends == {i \in 1..Len(path) : path[i] # "/"}
         IN  IF ends = {} THEN <<"/">>
             ELSE LET n == CHOOSE i \in ends : \A j \in ends : j <= i
                      seps == {i \in 1..n : path[i] = "/"}
                      s == IF seps = {} THEN 0 ELSE CHOOSE i \in seps : \A j \in seps : j <= i
                  IN  SubSeq(path, s + 1, n)

\* SanitizeProjectName: every character outside the class becomes "_".
SanitizeProjectName_Identity(name) == name
SanitizeProjectName(name) ==
    [i \in 1..Len(name) |-> IF name[i] \in NameChars THEN name[i] ELSE "_"]

\* []byte(projectDir): the UTF-8 bytes of the path.
RECURSIVE Utf8Bytes(_)
Utf8Bytes(s) ==
    IF s = <<>> THEN <<>>
    ELSE (CASE Head(s) = "a" -> <<97>>
            [] Head(s) = "." -> <<46>>
            [] Head(s) = "/" -> <<47>>
            [] Head(s) = " " -> <<32>>
            [] OTHER -> <<195, 169>>) \o Utf8Bytes(Tail(s))

\* A digest standing for sha256.Sum256: three 16-bit words computed from
\* the bytes, so that different inputs may or may not collide.
RECURSIVE Fold(_, _, _)
Fold(bytes, h, mult) ==
    IF bytes = <<>> THEN h
    ELSE Fold(Tail(bytes), (h * mult + Head(bytes)) % 65536, mult)
Sha256Sum(bytes) == <<Fold(bytes, 7, 31), Fold(bytes, 11, 257), Fold(bytes, 13, 4099)>>

\* hex.EncodeToString: four lower-case hex digits for each 16-bit word.
HexEncode(words) ==
    [i \in 1..(4 * Len(words)) |->
        LET w == words[((i - 1) \div 4) + 1]
            k == (i - 1) % 4
            shift == IF k = 0 THEN 4096 ELSE IF k = 1 THEN 256 ELSE IF k = 2 THEN 16 ELSE 1
        IN  HexDigits[((w \div shift) % 16) + 1]]

ShortHash(projectDir) == SubSeq(HexEncode(Sha256Sum(Utf8Bytes(projectDir))), 1, ShortHashLen)

GenerateSandboxName(projectDir) ==
    SanitizeProjectName(Base(projectDir)) \o <<"-">> \o ShortHash(projectDir)

\* A call of GenerateSandboxName.
GenerateName(p) ==
    /\ gnPath' = p
    /\ gnName' = GenerateSandboxName(p)


(***************************************************************************)
(* Git adapter: Configure, Setup (the safe gitconfig), Bindings and        *)
(* Environment.  A gitconfig is a sequence of lines, each a section header *)
(* or a key with its value.                                                *)
(***************************************************************************)
MaxGitLines == 3

NoFile == <<[kind |-> "absent", key |-> "", value |-> ""]>>
NoContribution == [called |-> FALSE, bindings |-> <<>>, env |-> {}]

\* The values of the "mode" option; "<nil>" stands for a missing option.
GitModeValues ==
    {"readonly", "read-only", "unknown", "", "<nil>", "readwrite", "read-write", "rw",
     "READWRITE", "Rw", "disabled", "none", "off", "DISABLED"}

\* strings.ToLower on those values.
ToLower(v) ==
    CASE v = "READWRITE" -> "readwrite"
      [] v = "Rw" -> "rw"
      [] v = "DISABLED" -> "disabled"
      [] OTHER -> v

\* Git.Configure: the mode an option value selects.
ModeOf_ReadWriteDefault(v) == "readwrite"
ModeOf(v) ==
    IF ToLower(v) \in {"readwrite", "read-write", "rw"} THEN "readwrite"
    ELSE IF ToLower(v) \in {"disabled", "none", "off"} THEN "disabled"
    ELSE "readonly"

Section(name) == [kind |-> "section", key |-> name, value |-> ""]
KeyValue(k, v) == [kind |-> "kv", key |-> k, value |-> v]

GitLines ==
    {Section("user"), Section("credential"), Section("core"), Section("alias"),
     KeyValue("name", "Test User"), KeyValue("email", "test@example.com"),
     KeyValue("signingkey", "ABC123"), KeyValue("helper", "store"),
     KeyValue("editor", "vim"), KeyValue("co", "checkout")}
Gitconfigs == SeqsUpTo(GitLines, MaxGitLines)

\* parseGitconfig: name and email of the [user] section, "" when absent.
RECURSIVE ParseFrom(_, _, _)
ParseFrom(lines, section, acc) ==
    IF lines = <<>> THEN acc
    ELSE LET l == Head(lines)
         IN  IF l.kind = "section" THEN ParseFrom(Tail(lines), l.key, acc)
             ELSE IF section = "user" /\ l.key = "name"
                  THEN ParseFrom(Tail(lines), section, [acc EXCEPT !.name = l.value])
             ELSE IF section = "user" /\ l.key = "email"
                  THEN ParseFrom(Tail(lines), section, [acc EXCEPT !.email = l.value])
             ELSE ParseFrom(Tail(lines), section, acc)
parseGitconfig(file) ==
    IF file = NoFile THEN [name |-> "", email |-> ""]
    ELSE ParseFrom(file, "", [name |-> "", email |-> ""])

\* The safe config: a [user] section with the name and email that were found.
SafeConfig_Copy(file) == file
SafeConfig(file) ==
    LET u == parseGitconfig(file)
    IN  <<Section("user")>>
          \o (IF u.name # "" THEN <<KeyValue("name", u.name)>> ELSE <<>>)
          \o (IF u.email # "" THEN <<KeyValue("email", u.email)>> ELSE <<>>)

\* Git.Bindings.
GitBindings(mode, hasGitDir) ==
    IF mode = "readwrite" THEN GitReadWriteBindings
    ELSE IF mode = "readonly"
    THEN <<Binding(SandboxHome \o <<".gitconfig.safe">>, Home \o <<".gitconfig">>, TRUE, TRUE)>>
           \o (IF hasGitDir
               THEN <<Binding(Project \o <<".git">>, <<>>, TRUE, FALSE)>>
               ELSE <<>>)
    ELSE <<>>

\* Git.Environment: variables taken from the host.
GitEnvironment(mode) ==
    IF mode = "readwrite"
    THEN {[name |-> "SSH_AUTH_SOCK", fromHost |-> TRUE], [name |-> "GPG_TTY", fromHost |-> TRUE]}
    ELSE {}

GitConfigure(v) ==
    /\ gRaw' = v
    /\ gMode' = ModeOf(v)
    /\ gOut' = NoContribution
    /\ UNCHANGED <<gProj, gHost, gSafe>>

\* Git.Setup: in read-only mode, with a host gitconfig, write the safe config.
GitSetup ==
    /\ gMode # ""
    /\ gSafe' = IF gMode = "readonly" /\ gHost # NoFile THEN SafeConfig(gHost) ELSE gSafe
    /\ UNCHANGED <<gRaw, gMode, gProj, gHost, gOut>>

\* The composer asks the adapter for its bindings and environment.
GitContribute ==
    /\ gMode # ""
    /\ gOut' = [called |-> TRUE, bindings |-> GitBindings(gMode, gProj), env |-> GitEnvironment(gMode)]
    /\ UNCHANGED <<gRaw, gMode, gProj, gHost, gSafe>>


(***************************************************************************)
(* Memory accesses of the Server methods.  Each method is the sequence of  *)
(* its lock, unlock, read and write steps on the fields of one Server;     *)
(* threads interleave at the granularity of these steps.                   *)
(***************************************************************************)
NThreads == 2
Threads == 1..NThreads
Methods == {"Start", "Stop", "IsRunning", "Port", "Addr", "CA"}

Step(kind, loc) == [kind |-> kind, loc |-> loc]

\* The steps of a method; saw is the branch chosen when s.running was read:
\* "early" for the early return, "fail" for a Start whose bind failed, "full"
\* for the path that changes the server.
OpSteps(op, saw) ==
    CASE op = "Start" ->
            <<Step("lock", "mu"), Step("read", "running")>>
            \o (IF saw = "early" THEN <<>> ELSE <<Step("read", "config.Port")>>)
            \o (IF saw = "full"
                THEN <<Step("write", "config.Port"), Step("write", "listener"),
                       Step("write", "running"), Step("read", "listener")>>
                ELSE <<>>)
            \o <<Step("unlock", "mu")>>
      [] op = "Stop" ->
            <<Step("lock", "mu"), Step("read", "running")>>
            \o (IF saw = "full"
                THEN <<Step("write", "running"), Step("read", "listener")>>
                ELSE <<>>)
            \o <<Step("unlock", "mu")>>
      [] op = "IsRunning" ->
            <<Step("lock", "mu"), Step("read", "running"), Step("unlock", "mu")>>
      [] op = "Port" -> <<Step("read", "config.Port")>>
      [] op = "Addr" -> <<Step("read", "listener"), Step("read", "listener")>>
      [] op = "CA" -> <<Step("read", "ca")>>

NoStep == Step("none", "")
NextStep(t) ==
    IF tOp[t] = "idle" THEN NoStep ELSE OpSteps(tOp[t], tSaw[t])[tPc[t]]

\* The branches a method can take once it has read s.running.
Branches(op, run) ==
    CASE op = "Start" -> IF run THEN {"early"} ELSE {"full", "fail"}
      [] op = "Stop" -> IF run THEN {"full"} ELSE {"early"}
      [] OTHER -> {"early"}

Advance(t, saw) ==
    IF tPc[t] = Len(OpSteps(tOp[t], saw))
    THEN /\ tOp' = [tOp EXCEPT ![t] = "idle"]
         /\ tPc' = [tPc EXCEPT ![t] = 1]
         /\ tSaw' = [tSaw EXCEPT ![t] = "early"]
    ELSE /\ tPc' = [tPc EXCEPT ![t] = @ + 1]
         /\ tSaw' = [tSaw EXCEPT ![t] = saw]
         /\ UNCHANGED tOp

InitRace ==
    /\ mu = 0
    /\ tOp = [t \in Threads |-> "idle"]
    /\ tPc = [t \in Threads |-> 1]
    /\ tSaw = [t \in Threads |-> "early"]
    /\ tRunning = FALSE

RaceCall(t, op) ==
    /\ tOp[t] = "idle"
    /\ tOp' = [tOp EXCEPT ![t] = op]
    /\ UNCHANGED <<mu, tPc, tSaw, tRunning>>

RaceLock(t) ==
    /\ NextStep(t).kind = "lock"
    /\ mu = 0
    /\ mu' = t
    /\ Advance(t, tSaw[t])
    /\ UNCHANGED tRunning

RaceUnlock(t) ==
    /\ NextStep(t).kind = "unlock"
    /\ mu' = 0
    /\ Advance(t, tSaw[t])
    /\ UNCHANGED tRunning

RaceRead(t) ==
    /\ NextStep(t).kind = "read"
    /\ \E saw \in (IF NextStep(t).loc = "running"
                   THEN Branches(tOp[t], tRunning) ELSE {tSaw[t]}) :
          Advance(t, saw)
    /\ UNCHANGED <<mu, tRunning>>

RaceWrite(t) ==
    /\ NextStep(t).kind = "write"
    /\ tRunning' = IF NextStep(t).loc = "running" THEN tOp[t] = "Start" ELSE tRunning
    /\ Advance(t, tSaw[t])
    /\ UNCHANGED mu

RaceAtRest == InitRace


(***************************************************************************)
(* RequestLogger of part_001 and the names of its files.  A file name is   *)
(* requests_<today>_<%04d index>.jsonl.gz; the directory is the set of the *)
(* indices of today's files.                                               *)
(***************************************************************************)
NLoggers == 2
MaxLogIndex == 3
Loggers == 1..NLoggers

\* Directories left by earlier runs: a run of consecutive indices (older
\* files are deleted from the low end), or nothing.
LogDirs == {{}} \cup {a..b : a, b \in 0..MaxLogIndex}

\* findNextIndex: the number of today's files that match the glob.
findNextIndex(dir) == Cardinality(dir)

InitLoggers ==
    /\ rlDir \in LogDirs
    /\ rlPc = [l \in Loggers |-> "none"]
    /\ rlIndex = [l \in Loggers |-> 0]

\* NewRequestLogger, rotate line 136: choose the index of the file to open.
RotateFind(l) ==
    /\ rlPc[l] = "none"
    /\ findNextIndex(rlDir) <= MaxLogIndex + 1
    /\ rlIndex' = [rlIndex EXCEPT ![l] = findNextIndex(rlDir)]
    /\ rlPc' = [rlPc EXCEPT ![l] = "found"]
    /\ UNCHANGED rlDir

\* rotate lines 138-152: os.OpenFile with O_CREATE|O_APPEND creates the file
\* or opens the one that has the name.
RotateOpen(l) ==
    /\ rlPc[l] = "found"
    /\ rlDir' = rlDir \cup {rlIndex[l]}
    /\ rlPc' = [rlPc EXCEPT ![l] = "open"]
    /\ UNCHANGED rlIndex

\* Close.
LoggerClose(l) ==
    /\ rlPc[l] = "open"
    /\ rlPc' = [rlPc EXCEPT ![l] = "closed"]
    /\ UNCHANGED <<rlDir, rlIndex>>

RlAtRest == rlDir = {} /\ rlPc = [l \in Loggers |-> "none"] /\ rlIndex = [l \in Loggers |-> 0]


(***************************************************************************)
(* RequestLogger.Log under concurrency.  Each connection is served by one  *)
(* goroutine that logs its requests one after another; a line reaches the  *)
(* stream in two parts, so that a write that is not exclusive shows.       *)
(***************************************************************************)
NConns == 2
MaxReqs == 2
Conns == 1..NConns
LoggerVersions == {"part_001", "filter_types"}

\* Whether Log takes rl.mu: filter_types.go:515 does, part_001:64-79 does not.
LogLocks(ver) == ver = "filter_types"

InitLog ==
    /\ logVer \in LoggerVersions
    /\ logMu = 0
    /\ logPc = [c \in Conns |-> "idle"]
    /\ logK = [c \in Conns |-> 0]
    /\ logOut = <<>>

\* Log is entered: rl.mu.Lock() where the logger has it, then json.Marshal.
LogEnter(c) ==
    /\ logPc[c] = "idle"
    /\ logK[c] < MaxReqs
    /\ IF LogLocks(logVer) THEN logMu = 0 /\ logMu' = c ELSE UNCHANGED logMu
    /\ logPc' = [logPc EXCEPT ![c] = "first"]
    /\ UNCHANGED <<logVer, logK, logOut>>

\* Write(data): the line goes into the stream, part by part.
LogWritePart(c) ==
    /\ logPc[c] \in {"first", "second"}
    /\ logOut' = Append(logOut, [conn |-> c, k |-> logK[c] + 1,
                                 half |-> IF logPc[c] = "first" THEN 1 ELSE 2])
    /\ logPc' = [logPc EXCEPT ![c] = IF @ = "first" THEN "second" ELSE "written"]
    /\ UNCHANGED <<logVer, logMu, logK>>

\* Log returns (the deferred Unlock where the mutex was taken).
LogReturn(c) ==
    /\ logPc[c] = "written"
    /\ logMu' = IF LogLocks(logVer) THEN 0 ELSE logMu
    /\ logK' = [logK EXCEPT ![c] = @ + 1]
    /\ logPc' = [logPc EXCEPT ![c] = "idle"]
    /\ UNCHANGED <<logVer, logOut>>

LogAtRest ==
    /\ logVer = "filter_types" /\ logMu = 0 /\ logOut = <<>>
    /\ logPc = [c \in Conns |-> "idle"] /\ logK = [c \in Conns |-> 0]


(***************************************************************************)
(* Filter engine, ask mode: the asker, the per-key guard and the decision  *)
(* cache of one run.  Every request here matched a rule with action ask.   *)
(***************************************************************************)
\* FilterConfig.IsCacheEnabled: CacheDecisions, true when it is nil.
IsCacheEnabled_NilOff(c) == c.cacheDecisions = "true"
IsCacheEnabled(c) == IF c.cacheDecisions = "nil" THEN TRUE ELSE c.cacheDecisions = "true"

\* The cache key: the host for a host rule, host and path (the URL) otherwise.
CacheKey(scope, q) == IF scope = "host" THEN <<q.host>> ELSE <<q.host, q.path>>
CacheKeys == {CacheKey(sc, q) : sc \in {"host", "url"}, q \in RequestUniverse}
KeyOf(r) == CacheKey(ckCfg.scope, ckReq[r])
NoAnswer == [action |-> "", by |-> ""]

InitCache ==
    /\ ckCfg \in [cacheDecisions : {"nil", "true", "false"}, scope : {"host", "url"},
                  defaultAction : {"allow", "block"}]
    /\ ckPc = [r \in Requests |-> "new"]
    /\ ckReq = [r \in Requests |-> NoRequest]
    /\ ckDec = [r \in Requests |-> NoAnswer]
    /\ ckCache = [k \in CacheKeys |-> ""]

\* A request reaches the ask step with fingerprint q: a cached decision
\* answers it; else it waits while an ask for its key is in flight; else the
\* asker is invoked for it.
Consult(r, q) ==
    LET k == CacheKey(ckCfg.scope, q)
    IN  /\ ckReq' = [ckReq EXCEPT ![r] = q]
        /\ IF IsCacheEnabled(ckCfg) /\ ckCache[k] # ""
           THEN /\ ckDec' = [ckDec EXCEPT ![r] = [action |-> ckCache[k], by |-> "cache"]]
                /\ ckPc' = [ckPc EXCEPT ![r] = "done"]
           ELSE /\ ckPc' = [ckPc EXCEPT ![r] =
                      IF IsCacheEnabled(ckCfg)
                         /\ \E o \in Requests \ {r} : ckPc[o] = "asking" /\ KeyOf(o) = k
                      THEN "waiting" ELSE "asking"]
                /\ UNCHANGED ckDec
        /\ UNCHANGED <<ckCfg, ckCache>>

EngineAsk(r, q) == ckPc[r] = "new" /\ Consult(r, q)

\* The ask a request waited for is over: the request consults again.
EngineResume(r) ==
    /\ ckPc[r] = "waiting"
    /\ ~\E o \in Requests \ {r} : ckPc[o] = "asking" /\ KeyOf(o) = KeyOf(r)
    /\ Consult(r, ckReq[r])

\* The asker answers; the answer is cached when caching is enabled.
AskerAnswers(r, a) ==
    /\ ckPc[r] = "asking"
    /\ ckDec' = [ckDec EXCEPT ![r] = [action |-> a, by |-> "asker"]]
    /\ ckPc' = [ckPc EXCEPT ![r] = "done"]
    /\ ckCache' = IF IsCacheEnabled(ckCfg) THEN [ckCache EXCEPT ![KeyOf(r)] = a] ELSE ckCache
    /\ UNCHANGED <<ckCfg, ckReq>>

\* The deadline passes: the default decides this request; nothing is cached.
AskerTimesOut(r) ==
    /\ ckPc[r] = "asking"
    /\ ckDec' = [ckDec EXCEPT ![r] = [action |-> ckCfg.defaultAction, by |-> "timeout"]]
    /\ ckPc' = [ckPc EXCEPT ![r] = "done"]
    /\ UNCHANGED <<ckCfg, ckReq, ckCache>>

CacheAtRest ==
    /\ ckCfg = [cacheDecisions |-> "nil", scope |-> "host", defaultAction |-> "block"]
    /\ ckPc = [r \in Requests |-> "new"] /\ ckReq = [r \in Requests |-> NoRequest]
    /\ ckDec = [r \in Requests |-> NoAnswer] /\ ckCache = [k \in CacheKeys |-> ""]


(***************************************************************************)
(* Sandbox identity across runs: NewConfig, FindExistingSandbox and        *)
(* EnsureSandboxDirs on the base directory ~/.local/share/devsandbox.      *)
(***************************************************************************)
MaxRuns == 4
\* Two projects with the same basename.
ProjectDirs == {<<"/", "a">>, <<"a", "/", "a">>}
LegacyName(p) == SanitizeProjectName(Base(p))
SandboxNames == {GenerateSandboxName(p) : p \in ProjectDirs} \cup {LegacyName(p) : p \in ProjectDirs}

NoMeta == [projectDir |-> <<>>, projectName |-> <<>>, createdAt |-> 0, lastUsed |-> 0]
NoRun == [dir |-> <<>>, name |-> <<>>]

\* LoadMetadata succeeded and m.ProjectDir == projectDir.
MetaMatches(n, p) == n \in sbDirs /\ sbMeta[n] # NoMeta /\ sbMeta[n].projectDir = p

\* FindExistingSandbox: the first directory whose metadata names the project.
FindExistingSandbox_Never(p) == <<>>
FindExistingSandbox(p) ==
    IF \E n \in SandboxNames : MetaMatches(n, p)
    THEN CHOOSE n \in SandboxNames : MetaMatches(n, p)
    ELSE <<>>

\* CreateMetadata.
CreateMetadata(c, now) ==
    [projectDir |-> c.dir, projectName |-> c.name, createdAt |-> now, lastUsed |-> now]

\* The base directory before the first run of this version: empty, or with a
\* sandbox under the plain basename, with or without metadata.
InitSandboxes ==
    /\ \E p \in ProjectDirs, had \in {"nothing", "legacy", "legacy with metadata"} :
          /\ sbDirs = IF had = "nothing" THEN {} ELSE {LegacyName(p)}
          /\ sbMeta = [n \in SandboxNames |->
                          IF had = "legacy with metadata" /\ n = LegacyName(p)
                          THEN CreateMetadata([dir |-> p, name |-> n], 0) ELSE NoMeta]
    /\ sbRun = NoRun
    /\ sbNames = [p \in ProjectDirs |-> {}]
    /\ sbClock = 0

\* NewConfig in project directory p.
NewConfig(p) ==
    /\ sbRun = NoRun
    /\ sbClock < MaxRuns
    /\ LET found == FindExistingSandbox(p)
           name == IF found # <<>> THEN found ELSE GenerateSandboxName(p)
       IN  /\ sbRun' = [dir |-> p, name |-> name]
           /\ sbNames' = [sbNames EXCEPT ![p] = @ \cup {name}]
    /\ sbClock' = sbClock + 1
    /\ UNCHANGED <<sbDirs, sbMeta>>

\* EnsureSandboxDirs: make the directories; write the metadata when there is
\* none, else update last-used and ignore a failure.  Any of the three can
\* fail.
EnsureSandboxDirs(out) ==
    /\ sbRun # NoRun
    /\ IF out = "mkdir fails" THEN UNCHANGED <<sbDirs, sbMeta>>
       ELSE /\ sbDirs' = sbDirs \cup {sbRun.name}
            /\ sbMeta' =
                 IF sbMeta[sbRun.name] = NoMeta
                 THEN IF out = "save fails" THEN sbMeta
                      ELSE [sbMeta EXCEPT ![sbRun.name] = CreateMetadata(sbRun, sbClock)]
                 ELSE IF out = "update fails" THEN sbMeta
                      ELSE [sbMeta EXCEPT ![sbRun.name].lastUsed = sbClock]
    /\ sbRun' = NoRun
    /\ UNCHANGED <<sbNames, sbClock>>

SbAtRest ==
    /\ sbDirs = {} /\ sbMeta = [n \in SandboxNames |-> NoMeta] /\ sbRun = NoRun
    /\ sbNames = [p \in ProjectDirs |-> {}] /\ sbClock = 0


(***************************************************************************)
(* FilterRule.Validate.  Patterns are short strings over a, the grouping   *)
(* and repetition characters and the backslash.                            *)
(***************************************************************************)
MaxPatternLen == 3
PatternChars == {"a", "(", ")", "+", "*", "\\"}
RuleInputs ==
    [pattern : SeqsUpTo(PatternChars, MaxPatternLen),
     action : {"", "ask", "deny"},
     scope : {"", "url", "query"},
     type : {"", "exact", "glob", "regex", "prefix"}]

\* regexp.Compile succeeds.  The pattern is read left to right: depth is the
\* number of open groups, atom whether a repetition may follow.  Errors:
\* unexpected ), missing closing ), missing argument to repetition operator,
\* invalid nested repetition operator, trailing backslash.
RECURSIVE CompilesFrom(_, _, _)
CompilesFrom(p, depth, atom) ==
    IF p = <<>> THEN depth = 0
    ELSE CASE Head(p) = "(" -> CompilesFrom(Tail(p), depth + 1, FALSE)
           [] Head(p) = ")" -> depth > 0 /\ CompilesFrom(Tail(p), depth - 1, TRUE)
           [] Head(p) \in {"+", "*"} -> atom /\ CompilesFrom(Tail(p), depth, FALSE)
           [] Head(p) = "\\" -> Len(p) >= 2 /\ CompilesFrom(Tail(Tail(p)), depth, TRUE)
           [] OTHER -> CompilesFrom(Tail(p), depth, TRUE)
Compiles(p) == CompilesFrom(p, 0, FALSE)

\* FilterRule.Validate: "" for nil, else the error.
ValidateRule(r) ==
    IF r.pattern = <<>> THEN "pattern is required"
    ELSE IF r.action = "" THEN "action is required"
    ELSE IF r.action \notin FilterActions THEN "invalid action"
    ELSE IF r.scope \notin {"host", "path", "url", ""} THEN "invalid scope"
    ELSE IF r.type \notin {"exact", "glob", "regex", ""} THEN "invalid type"
    ELSE IF DetectPatternType(r) = "regex" /\ ~Compiles(r.pattern) THEN "invalid regex pattern"
    ELSE ""

InitValidate == vRule \in RuleInputs /\ vErr = "unchecked"

Validate ==
    /\ vErr = "unchecked"
    /\ vErr' = ValidateRule(vRule)
    /\ UNCHANGED vRule

ValAtRest == vRule = [pattern |-> <<>>, action |-> "", scope |-> "", type |-> ""] /\ vErr = "unchecked"


(***************************************************************************)
(* The CA injected into the proxy engine.  setupMITM stores the server's   *)
(* CA in the package-level goproxy.GoproxyCa and builds the signing        *)
(* configuration from a pointer to that variable.                          *)
(***************************************************************************)
CaStores == {"A", "B", "C"}

InitCa ==
    /\ srvCa = [s \in Servers |-> "none"]
    /\ GoproxyCa = "builtin"
    /\ leaves = {}

\* NewServer: LoadOrCreateCA(cfg), then setupMITM.
CaNewServer(s, ca) ==
    /\ srvCa[s] = "none"
    /\ srvCa' = [srvCa EXCEPT ![s] = ca]
    /\ GoproxyCa' = ca
    /\ UNCHANGED leaves

\* A CONNECT through server s: goproxy.MitmConnect.TLSConfig signs the leaf
\* with the certificate behind &goproxy.GoproxyCa.
MintLeaf(s) ==
    /\ srvCa[s] # "none"
    /\ leaves' = leaves \cup {<<s, GoproxyCa>>}
    /\ UNCHANGED <<srvCa, GoproxyCa>>

CaAtRest == srvCa = [s \in Servers |-> "none"] /\ GoproxyCa = "builtin" /\ leaves = {}

(***************************************************************************)
(* Specifications, one per subsystem; the other subsystems stay in their   *)
(* initial state.                                                          *)
(***************************************************************************)
LockAtRest ==
    /\ rootOk = TRUE
    /\ lockExists = FALSE
    /\ sPc = [s \in Sessions |-> "idle"]
    /\ sRes = [s \in Sessions |-> "none"]
    /\ pPc = [p \in Probers |-> "idle"]
    /\ pRes = [p \in Probers |-> "none"]

FilterAtRest ==
    /\ fcfg = [defaultAction |-> "", rules |-> <<>>]
    /\ decided = [q \in RequestUniverse |-> NoDecision]

SinkAtRest ==
    /\ rfw = [st |-> "new", files |-> <<>>, cur |-> 0, written |-> 0, maxSize |-> 1, maxFiles |-> 1]
    /\ rfwOps = 0
    /\ rfwRet = [n |-> 0, err |-> FALSE]

ServersAtRest == InitServers(BasePort)

ComposerAtRest ==
    /\ cTools = <<>>
    /\ cHost = HostAlways
    /\ cStage = 1
    /\ cTool = 1
    /\ cArgs = <<>>

NetAtRest ==
    /\ nEnv = [pasta |-> TRUE, bwrap |-> TRUE, iptAccept |-> TRUE, iptReject |-> TRUE]
    /\ nCmd = [mode |-> "direct", bwrapArgs |-> <<>>, shellCmd |-> <<>>]
    /\ nPc = "start"
    /\ nCaller = "running"
    /\ nArgv = <<>>
    /\ nRules = <<>>

CoreAtRest ==
    LockAtRest /\ FilterAtRest /\ SinkAtRest /\ ServersAtRest /\ InitRequests /\ ComposerAtRest

NameAtRest == gnPath = <<>> /\ gnName = <<>>

GitAtRest ==
    /\ gRaw = "<nil>" /\ gMode = "" /\ gProj = FALSE
    /\ gHost = NoFile /\ gSafe = NoFile /\ gOut = NoContribution

ExtAtRest == NetAtRest /\ NameAtRest /\ GitAtRest /\ RaceAtRest /\ RlAtRest /\ LogAtRest /\ CacheAtRest /\ SbAtRest /\ ValAtRest /\ CaAtRest

InitSpecLock == InitLock /\ FilterAtRest /\ SinkAtRest /\ ServersAtRest /\ InitRequests /\ ComposerAtRest /\ ExtAtRest
NextLock ==
    \/ \E s \in Sessions : AcquireOpen(s) /\ UNCHANGED <<fltVars, rfwVars, srvVars, reqVars, compVars, extVars>>
    \/ \E s \in Sessions : AcquireFlock(s) /\ UNCHANGED <<fltVars, rfwVars, srvVars, reqVars, compVars, extVars>>
    \/ \E s \in Sessions : ReleaseLock(s) /\ UNCHANGED <<fltVars, rfwVars, srvVars, reqVars, compVars, extVars>>
    \/ \E p \in Probers : ProbeOpen(p) /\ UNCHANGED <<fltVars, rfwVars, srvVars, reqVars, compVars, extVars>>
    \/ \E p \in Probers : ProbeFlock(p) /\ UNCHANGED <<fltVars, rfwVars, srvVars, reqVars, compVars, extVars>>
    \/ \E p \in Probers : ProbeUnlock(p) /\ UNCHANGED <<fltVars, rfwVars, srvVars, reqVars, compVars, extVars>>
SpecLock == InitSpecLock /\ [][NextLock]_vars

InitSpecFilter == InitFilter /\ LockAtRest /\ SinkAtRest /\ ServersAtRest /\ InitRequests /\ ComposerAtRest /\ ExtAtRest
NextFilter ==
    \/ \E q \in RequestUniverse : EvaluateRequest(q) /\ UNCHANGED <<lockVars, rfwVars, srvVars, reqVars, compVars, extVars>>
SpecFilter == InitSpecFilter /\ [][NextFilter]_vars

InitSpecSink == InitSink /\ LockAtRest /\ FilterAtRest /\ ServersAtRest /\ InitRequests /\ ComposerAtRest /\ ExtAtRest
NextSink ==
    \/ RfwNew /\ UNCHANGED <<lockVars, fltVars, srvVars, reqVars, compVars, extVars>>
    \/ \E n \in 1..MaxPayload : RfwWrite(n) /\ UNCHANGED <<lockVars, fltVars, srvVars, reqVars, compVars, extVars>>
    \/ RfwClose /\ UNCHANGED <<lockVars, fltVars, srvVars, reqVars, compVars, extVars>>
SpecSink == InitSpecSink /\ [][NextSink]_vars

\* Servers started and stopped concurrently, all configured with the same port.
InitSpecServer ==
    /\ \E p \in ConfigPorts : InitServers(p)
    /\ InitRequests /\ LockAtRest /\ FilterAtRest /\ SinkAtRest /\ ComposerAtRest /\ ExtAtRest
NextServer ==
    \/ \E s \in Servers : StartBegin(s) /\ UNCHANGED <<lockVars, fltVars, rfwVars, reqVars, compVars, extVars>>
    \/ \E s \in Servers : StartListen(s) /\ UNCHANGED <<lockVars, fltVars, rfwVars, reqVars, compVars, extVars>>
    \/ \E s \in Servers : Stop(s) /\ UNCHANGED <<lockVars, fltVars, rfwVars, reqVars, compVars, extVars>>
    \/ \E q \in ExtPorts : ExtBind(q) /\ UNCHANGED <<lockVars, fltVars, rfwVars, reqVars, compVars, extVars>>
    \/ \E q \in ExtPorts : ExtRelease(q) /\ UNCHANGED <<lockVars, fltVars, rfwVars, reqVars, compVars, extVars>>
SpecServer == InitSpecServer /\ [][NextServer]_vars

\* One proxy server, started and stopped while requests pass through it.
ProxyServers == {1}
InitSpecProxy ==
    /\ InitServers(BasePort)
    /\ InitRequests
    /\ fcfg \in ProxyFilterConfigs
    /\ decided = [q \in RequestUniverse |-> NoDecision]
    /\ LockAtRest /\ SinkAtRest /\ ComposerAtRest /\ ExtAtRest
NextProxy ==
    \/ \E s \in ProxyServers : StartBegin(s) /\ UNCHANGED <<lockVars, fltVars, rfwVars, reqVars, compVars, extVars>>
    \/ \E s \in ProxyServers : StartListen(s) /\ UNCHANGED <<lockVars, fltVars, rfwVars, reqVars, compVars, extVars>>
    \/ \E s \in ProxyServers : Stop(s) /\ UNCHANGED <<lockVars, fltVars, rfwVars, reqVars, compVars, extVars>>
    \/ \E r \in Requests, s \in ProxyServers, q \in RequestUniverse :
          ReqReceive(r, s, q) /\ UNCHANGED <<lockVars, fltVars, rfwVars, compVars, extVars>>
    \/ \E r \in Requests : ReqUpstream(r) /\ UNCHANGED <<lockVars, fltVars, rfwVars, compVars, extVars>>
    \/ \E r \in Requests : ReqLogResponse(r) /\ UNCHANGED <<lockVars, fltVars, rfwVars, compVars, extVars>>
SpecProxy == InitSpecProxy /\ [][NextProxy]_vars

\* The composer building one argument vector, for every choice of adapters.
InitSpecCompose ==
    /\ InitComposer
    /\ LockAtRest /\ FilterAtRest /\ SinkAtRest /\ ServersAtRest /\ InitRequests /\ ExtAtRest
NextCompose ==
    \/ ComposeBase /\ UNCHANGED <<lockVars, fltVars, rfwVars, srvVars, reqVars, extVars>>
    \/ ComposeProject /\ UNCHANGED <<lockVars, fltVars, rfwVars, srvVars, reqVars, extVars>>
    \/ ComposeTool /\ UNCHANGED <<lockVars, fltVars, rfwVars, srvVars, reqVars, extVars>>
    \/ ComposeBlock /\ UNCHANGED <<lockVars, fltVars, rfwVars, srvVars, reqVars, extVars>>
SpecCompose == InitSpecCompose /\ [][NextCompose]_vars


\* One run of the sandbox primitive, directly or inside the network helper.
InitSpecNet == InitNet /\ CoreAtRest /\ CaAtRest /\ ValAtRest /\ SbAtRest /\ CacheAtRest /\ LogAtRest /\ RlAtRest /\ NameAtRest /\ GitAtRest /\ RaceAtRest
NextNet ==
    \/ Exec /\ UNCHANGED <<coreVars, caVars, valVars, sbVars, cacheVars, logVars, rlVars, nameVars, gitVars, raceVars>>
    \/ ExecWithPasta /\ UNCHANGED <<coreVars, caVars, valVars, sbVars, cacheVars, logVars, rlVars, nameVars, gitVars, raceVars>>
    \/ WrapperAccept /\ UNCHANGED <<coreVars, caVars, valVars, sbVars, cacheVars, logVars, rlVars, nameVars, gitVars, raceVars>>
    \/ WrapperReject /\ UNCHANGED <<coreVars, caVars, valVars, sbVars, cacheVars, logVars, rlVars, nameVars, gitVars, raceVars>>
    \/ WrapperExec /\ UNCHANGED <<coreVars, caVars, valVars, sbVars, cacheVars, logVars, rlVars, nameVars, gitVars, raceVars>>
    \/ ProgramExit /\ UNCHANGED <<coreVars, caVars, valVars, sbVars, cacheVars, logVars, rlVars, nameVars, gitVars, raceVars>>
SpecNet == InitSpecNet /\ [][NextNet]_vars


\* GenerateSandboxName called on every project path.
InitSpecName == NameAtRest /\ CoreAtRest /\ CaAtRest /\ ValAtRest /\ SbAtRest /\ CacheAtRest /\ LogAtRest /\ RlAtRest /\ NetAtRest /\ GitAtRest /\ RaceAtRest
NextName ==
    \/ \E p \in Paths : GenerateName(p) /\ UNCHANGED <<coreVars, caVars, valVars, sbVars, cacheVars, logVars, rlVars, netVars, gitVars, raceVars>>
SpecName == InitSpecName /\ [][NextName]_vars


\* Setup on every host gitconfig, in each mode.
InitSpecGitSetup ==
    /\ gHost \in Gitconfigs \cup {NoFile}
    /\ gRaw = "<nil>" /\ gMode = "" /\ gProj = FALSE /\ gSafe = NoFile /\ gOut = NoContribution
    /\ CoreAtRest /\ CaAtRest /\ ValAtRest /\ SbAtRest /\ CacheAtRest /\ LogAtRest /\ RlAtRest /\ NetAtRest /\ NameAtRest /\ RaceAtRest
NextGitSetup ==
    \/ \E v \in {"<nil>", "readonly", "rw", "off"} :
          GitConfigure(v) /\ UNCHANGED <<coreVars, caVars, valVars, sbVars, cacheVars, logVars, rlVars, netVars, nameVars, raceVars>>
    \/ GitSetup /\ UNCHANGED <<coreVars, caVars, valVars, sbVars, cacheVars, logVars, rlVars, netVars, nameVars, raceVars>>
SpecGitSetup == InitSpecGitSetup /\ [][NextGitSetup]_vars

\* Configure with every option value, then Setup and the contributions.
InitSpecGitMode ==
    /\ gHost \in {NoFile, <<Section("user"), KeyValue("name", "Test User")>>}
    /\ gProj \in BOOLEAN
    /\ gRaw = "<nil>" /\ gMode = "" /\ gSafe = NoFile /\ gOut = NoContribution
    /\ CoreAtRest /\ CaAtRest /\ ValAtRest /\ SbAtRest /\ CacheAtRest /\ LogAtRest /\ RlAtRest /\ NetAtRest /\ NameAtRest /\ RaceAtRest
NextGitMode ==
    \/ \E v \in GitModeValues : GitConfigure(v) /\ UNCHANGED <<coreVars, caVars, valVars, sbVars, cacheVars, logVars, rlVars, netVars, nameVars, raceVars>>
    \/ GitSetup /\ UNCHANGED <<coreVars, caVars, valVars, sbVars, cacheVars, logVars, rlVars, netVars, nameVars, raceVars>>
    \/ GitContribute /\ UNCHANGED <<coreVars, caVars, valVars, sbVars, cacheVars, logVars, rlVars, netVars, nameVars, raceVars>>
SpecGitMode == InitSpecGitMode /\ [][NextGitMode]_vars


InitSpecRace == InitRace /\ CoreAtRest /\ CaAtRest /\ ValAtRest /\ SbAtRest /\ CacheAtRest /\ LogAtRest /\ RlAtRest /\ NetAtRest /\ NameAtRest /\ GitAtRest
NextRace ==
    \/ \E t \in Threads, op \in Methods : RaceCall(t, op) /\ UNCHANGED <<coreVars, caVars, valVars, sbVars, cacheVars, logVars, rlVars, netVars, nameVars, gitVars>>
    \/ \E t \in Threads : RaceLock(t) /\ UNCHANGED <<coreVars, caVars, valVars, sbVars, cacheVars, logVars, rlVars, netVars, nameVars, gitVars>>
    \/ \E t \in Threads : RaceRead(t) /\ UNCHANGED <<coreVars, caVars, valVars, sbVars, cacheVars, logVars, rlVars, netVars, nameVars, gitVars>>
    \/ \E t \in Threads : RaceWrite(t) /\ UNCHANGED <<coreVars, caVars, valVars, sbVars, cacheVars, logVars, rlVars, netVars, nameVars, gitVars>>
    \/ \E t \in Threads : RaceUnlock(t) /\ UNCHANGED <<coreVars, caVars, valVars, sbVars, cacheVars, logVars, rlVars, netVars, nameVars, gitVars>>
SpecRace == InitSpecRace /\ [][NextRace]_vars


\* One request through a running proxy whose filter can ask: an ask rule for
\* host a, every default action, ask_timeout unset or 2 seconds.
AskRequests == {1}
AskConfigs ==
    { [defaultAction |-> d, askTimeout |-> t,
       rules |-> <<[pattern |-> <<"a">>, action |-> "ask", scope |-> "host", type |-> "exact", reason |-> "ask a"]>>] :
      d \in FilterActions, t \in {0, 2} }
InitSpecAsk ==
    /\ InitServers(BasePort)
    /\ InitRequests
    /\ fcfg \in AskConfigs
    /\ decided = [q \in RequestUniverse |-> NoDecision]
    /\ LockAtRest /\ SinkAtRest /\ ComposerAtRest /\ ExtAtRest
NextAsk ==
    \/ \E s \in ProxyServers : StartBegin(s) /\ UNCHANGED <<lockVars, fltVars, rfwVars, reqVars, compVars, extVars>>
    \/ \E s \in ProxyServers : StartListen(s) /\ UNCHANGED <<lockVars, fltVars, rfwVars, reqVars, compVars, extVars>>
    \/ \E r \in AskRequests, s \in ProxyServers, q \in RequestUniverse :
          ReqReceive(r, s, q) /\ UNCHANGED <<lockVars, fltVars, rfwVars, compVars, extVars>>
    \/ \E r \in AskRequests : AskTick(r) /\ UNCHANGED <<lockVars, fltVars, rfwVars, compVars, extVars>>
    \/ \E r \in AskRequests, a \in {"allow", "block"} :
          AskAnswer(r, a) /\ UNCHANGED <<lockVars, fltVars, rfwVars, compVars, extVars>>
    \/ \E r \in AskRequests : AskTimeout(r) /\ UNCHANGED <<lockVars, fltVars, rfwVars, compVars, extVars>>
    \/ \E r \in AskRequests : ReqUpstream(r) /\ UNCHANGED <<lockVars, fltVars, rfwVars, compVars, extVars>>
    \/ \E r \in AskRequests : ReqLogResponse(r) /\ UNCHANGED <<lockVars, fltVars, rfwVars, compVars, extVars>>
SpecAsk == InitSpecAsk /\ [][NextAsk]_vars


InitSpecLoggers == InitLoggers /\ CoreAtRest /\ CaAtRest /\ ValAtRest /\ SbAtRest /\ CacheAtRest /\ LogAtRest /\ NetAtRest /\ NameAtRest /\ GitAtRest /\ RaceAtRest
NextLoggers ==
    \/ \E l \in Loggers : RotateFind(l) /\ UNCHANGED <<coreVars, caVars, valVars, sbVars, cacheVars, logVars, netVars, nameVars, gitVars, raceVars>>
    \/ \E l \in Loggers : RotateOpen(l) /\ UNCHANGED <<coreVars, caVars, valVars, sbVars, cacheVars, logVars, netVars, nameVars, gitVars, raceVars>>
    \/ \E l \in Loggers : LoggerClose(l) /\ UNCHANGED <<coreVars, caVars, valVars, sbVars, cacheVars, logVars, netVars, nameVars, gitVars, raceVars>>
SpecLoggers == InitSpecLoggers /\ [][NextLoggers]_vars


InitSpecLog == InitLog /\ CoreAtRest /\ CaAtRest /\ ValAtRest /\ SbAtRest /\ CacheAtRest /\ NetAtRest /\ NameAtRest /\ GitAtRest /\ RaceAtRest /\ RlAtRest
NextLog ==
    \/ \E c \in Conns : LogEnter(c) /\ UNCHANGED <<coreVars, caVars, valVars, sbVars, cacheVars, netVars, nameVars, gitVars, raceVars, rlVars>>
    \/ \E c \in Conns : LogWritePart(c) /\ UNCHANGED <<coreVars, caVars, valVars, sbVars, cacheVars, netVars, nameVars, gitVars, raceVars, rlVars>>
    \/ \E c \in Conns : LogReturn(c) /\ UNCHANGED <<coreVars, caVars, valVars, sbVars, cacheVars, netVars, nameVars, gitVars, raceVars, rlVars>>
SpecLog == InitSpecLog /\ [][NextLog]_vars


InitSpecCache == InitCache /\ CoreAtRest /\ CaAtRest /\ ValAtRest /\ SbAtRest /\ NetAtRest /\ NameAtRest /\ GitAtRest /\ RaceAtRest /\ RlAtRest /\ LogAtRest
NextCache ==
    \/ \E r \in Requests, q \in RequestUniverse : EngineAsk(r, q) /\ UNCHANGED <<coreVars, caVars, valVars, sbVars, netVars, nameVars, gitVars, raceVars, rlVars, logVars>>
    \/ \E r \in Requests : EngineResume(r) /\ UNCHANGED <<coreVars, caVars, valVars, sbVars, netVars, nameVars, gitVars, raceVars, rlVars, logVars>>
    \/ \E r \in Requests, a \in {"allow", "block"} : AskerAnswers(r, a) /\ UNCHANGED <<coreVars, caVars, valVars, sbVars, netVars, nameVars, gitVars, raceVars, rlVars, logVars>>
    \/ \E r \in Requests : AskerTimesOut(r) /\ UNCHANGED <<coreVars, caVars, valVars, sbVars, netVars, nameVars, gitVars, raceVars, rlVars, logVars>>
SpecCache == InitSpecCache /\ [][NextCache]_vars


InitSpecSandboxes == InitSandboxes /\ CoreAtRest /\ CaAtRest /\ ValAtRest /\ NetAtRest /\ NameAtRest /\ GitAtRest /\ RaceAtRest /\ RlAtRest /\ LogAtRest /\ CacheAtRest
NextSandboxes ==
    \/ \E p \in ProjectDirs : NewConfig(p) /\ UNCHANGED <<coreVars, caVars, valVars, netVars, nameVars, gitVars, raceVars, rlVars, logVars, cacheVars>>
    \/ \E out \in {"ok", "mkdir fails", "save fails", "update fails"} :
          EnsureSandboxDirs(out) /\ UNCHANGED <<coreVars, caVars, valVars, netVars, nameVars, gitVars, raceVars, rlVars, logVars, cacheVars>>
SpecSandboxes == InitSpecSandboxes /\ [][NextSandboxes]_vars


InitSpecValidate == InitValidate /\ CoreAtRest /\ CaAtRest /\ NetAtRest /\ NameAtRest /\ GitAtRest /\ RaceAtRest /\ RlAtRest /\ LogAtRest /\ CacheAtRest /\ SbAtRest
NextValidate ==
    \/ Validate /\ UNCHANGED <<coreVars, caVars, netVars, nameVars, gitVars, raceVars, rlVars, logVars, cacheVars, sbVars>>
SpecValidate == InitSpecValidate /\ [][NextValidate]_vars


InitSpecCa == InitCa /\ CoreAtRest /\ NetAtRest /\ NameAtRest /\ GitAtRest /\ RaceAtRest /\ RlAtRest /\ LogAtRest /\ CacheAtRest /\ SbAtRest /\ ValAtRest
NextCa ==
    \/ \E s \in Servers, ca \in CaStores : CaNewServer(s, ca) /\ UNCHANGED <<coreVars, netVars, nameVars, gitVars, raceVars, rlVars, logVars, cacheVars, sbVars, valVars>>
    \/ \E s \in Servers : MintLeaf(s) /\ UNCHANGED <<coreVars, netVars, nameVars, gitVars, raceVars, rlVars, logVars, cacheVars, sbVars, valVars>>
SpecCa == InitSpecCa /\ [][NextCa]_vars

(***************************************************************************)
(* Claims about the session lock.                                          *)
(***************************************************************************)
\* A call of IsSessionActive by prober p returns in this step.
ProbeReturns(p) == pPc[p] # "idle" /\ pPc'[p] = "idle"

\* C1: whenever IsSessionActive returns, it returns true exactly if at least one
\* handle acquired with AcquireSessionLock is still open, and false otherwise.
C1_ActiveIffHeld ==
    [][\A p \in Probers : ProbeReturns(p) => ((pRes'[p] = "true") <=> (Holders # {}))]_vars

\* C2: a shared acquisition attempted while other sessions hold the lock succeeds;
\* closing one handle leaves every other holder holding; and while any holder
\* remains, a probe that tries its exclusive lock reports the sandbox active.
C2_SharedCoexist ==
    [][ /\ \A s \in Sessions :
              (sPc[s] = "opened" /\ sPc'[s] # "opened" /\ Holders \ {s} # {})
                  => (sPc'[s] = "held" /\ sRes'[s] = "ok")
        /\ \A s, t \in Sessions :
              (s # t /\ sPc[s] = "held" /\ sPc'[s] = "idle" /\ sPc[t] = "held")
                  => sPc'[t] = "held"
        /\ \A p \in Probers :
              (pPc[p] = "opened" /\ pPc'[p] # "opened" /\ Holders # {})
                  => pRes'[p] = "true" ]_vars

\* Two sessions acquired, one has released, the other still holds, and a probe saw it active.
C2_Witness ==
    \E s, t \in Sessions :
        /\ s # t
        /\ sRes[s] = "ok" /\ sPc[s] = "idle"
        /\ sRes[t] = "ok" /\ sPc[t] = "held"
        /\ \E p \in Probers : pRes[p] = "true"

(***************************************************************************)
(* Claims about the filter engine.                                         *)
(***************************************************************************)
\* The rules of the configuration that match request q, by position.
MatchingRules(q) == {i \in 1..Len(fcfg.rules) : RuleMatches(fcfg.rules[i], q)}

FirstMatchDecides(q, d) ==
    IF MatchingRules(q) = {}
    THEN d.isDefault /\ d.rule = NoRule /\ d.action = fcfg.defaultAction
    ELSE LET i == CHOOSE j \in MatchingRules(q) : \A k \in MatchingRules(q) : j <= k
         IN  ~d.isDefault /\ d.rule = i /\ d.action = fcfg.rules[i].action

\* C8: every decision returned for a request is that of the first rule in
\* declared order that matches it, is_default holds exactly when no rule
\* matches and then the action is default_action; and a request decided again
\* under the same ruleset gets the same decision.
C8_FirstMatchWins ==
    [][\A q \in RequestUniverse :
          /\ decided'[q] # NoDecision => FirstMatchDecides(q, decided'[q])
          /\ (decided[q] # NoDecision /\ fcfg' = fcfg) => decided'[q] = decided[q]]_vars

\* A second rule decided a request (the first did not match), and another
\* request fell through to a default action other than allow.
C8_Witness ==
    /\ \E q \in RequestUniverse : decided[q].rule = 2
    /\ \E q \in RequestUniverse : decided[q].isDefault /\ decided[q].action = "block"

(***************************************************************************)
(* Claims about the rotating log sink.                                     *)
(***************************************************************************)
Survives(f, files) == \E k \in 1..Len(files) : files[k].idx = f.idx

\* C7: once the sink exists, after every Write and after Close the directory
\* holds at most max_files matching files; and a step never deletes a file
\* while keeping one that is older (pruning removes the oldest first).
C7_CountBounded ==
    [][ /\ rfw'.st # "new" => Len(rfw'.files) <= rfw'.maxFiles
        /\ \A i, j \in 1..Len(rfw.files) :
              (i < j /\ Survives(rfw.files[i], rfw'.files)) => Survives(rfw.files[j], rfw'.files) ]_vars

\* The sink was closed after rotations that pruned: the directory is full and
\* files with lower indices than the oldest one left are gone.
C7_Witness ==
    /\ rfw.st = "closed"
    /\ Len(rfw.files) = rfw.maxFiles
    /\ rfw.maxFiles >= 2
    /\ rfw.files[1].idx > 2

(***************************************************************************)
(* Proxy server claims.                                                    *)
(***************************************************************************)
RunningServers == {s \in Servers : running[s]}
PortRange(p) == p..(p + MaxPortRetries - 1)

\* C3 as stated: servers configured with the same port p and started in any
\* interleaving each bind a port in [p, p+MaxPortRetries) or fail, and no two
\* servers running at the same time are bound to the same port.
C3_RangeAndDistinct ==
    /\ \A s \in RunningServers : lsn[s].port \in PortRange(stBase[s])
    /\ \A s, t \in RunningServers : s # t => lsn[s].port # lsn[t].port

\* C3 amended: the same for a configured port p other than 0 (port 0 asks the
\* system for any free port, which lies outside [0, MaxPortRetries)); the
\* bound ports of running servers are distinct for every p.
C3_RangeAndDistinct_NonZero ==
    /\ \A s \in RunningServers : stBase[s] # 0 => lsn[s].port \in PortRange(stBase[s])
    /\ \A s, t \in RunningServers : s # t => lsn[s].port # lsn[t].port

C3_Witness ==
    \E s, t \in RunningServers :
        /\ stBase[s] = BasePort /\ stBase[t] = BasePort
        /\ lsn[s].port = BasePort /\ lsn[t].port = BasePort + 1

\* C4: after a successful Start the value returned by Port() is the port the
\* listener is bound to.
C4_PortWrittenBack ==
    \A s \in RunningServers : Port(s) = lsn[s].port

\* C5: Start on a running server returns an error and leaves the server as
\* it was: no new port search, same listener, same port, still running.
C5_StartWhileRunning ==
    [][\A s \in Servers :
          (running[s] /\ stPc[s] = "idle") =>
              /\ stPc'[s] = "idle"
              /\ running'[s] =>
                    /\ lsn'[s] = lsn[s]
                    /\ cfgPort'[s] = cfgPort[s]
                    /\ srvErr'[s] \in {srvErr[s], "already running"}]_vars

C5_Witness ==
    \E s \in Servers :
        running[s] /\ lsn[s].open /\ srvErr[s] = "already running"

(***************************************************************************)
(* Request logging and blocking claims.                                    *)
(***************************************************************************)
\* The records of request r in the sink's active file.
ActiveRecords(sk, r) ==
    LET act == {i \in 1..Len(sk.files) : sk.files[i].idx = sk.cur}
    IN  IF act = {} THEN <<>>
        ELSE SelectSeq(sk.files[CHOOSE i \in act : TRUE].recs, LAMBDA x : x.req = r)

\* C6: every request that reached the proxy and was answered has exactly one
\* record in the active log file, with method and url set and either status
\* or error set.
C6_OneRecordPerRequest ==
    \A r \in Requests :
        rqPc[r] = "done" =>
            LET recs == ActiveRecords(snk[rqSrv[r]], r)
            IN  /\ Len(recs) = 1
                /\ recs[1].entry.method # ""
                /\ recs[1].entry.url # <<>>
                /\ (recs[1].entry.status # 0 \/ recs[1].entry.error # "")

\* C9: a request whose filter decision is block is answered 403 with the
\* reason in the body, is logged with status 403, and is never sent upstream.
C9_BlockAnswered403 ==
    \A r \in Requests :
        (rqPc[r] = "done" /\ rqDec[r].action = "block") =>
            LET recs == ActiveRecords(snk[rqSrv[r]], r)
            IN  /\ rqResp[r] = [status |-> 403, body |-> rqDec[r].reason]
                /\ ~rqFwd[r]
                /\ Len(recs) = 1
                /\ recs[1].entry.status = 403

(***************************************************************************)
(* Composer claims.                                                        *)
(***************************************************************************)
OriginAt(o) == {i \in 1..Len(cArgs) : cArgs[i].origin = o}
UnderBlocked(path) == \E i \in 1..Len(BlockList) : IsPrefix(BlockList[i], path)

C11_RulesBeforeSandbox ==
    /\ (nCmd.mode = "proxy" /\ nPc \in {"sandboxed", "exited"}) =>
            nRules = <<AcceptGateway, RejectAll>>
    /\ (nCmd.mode = "proxy" /\ nPc = "sandboxed") => nCaller = "waiting"
    /\ (nCmd.mode = "direct" /\ nPc \in {"sandboxed", "exited"}) => nCaller = "replaced"

(***************************************************************************)
(* Sandbox naming claims.                                                  *)
(***************************************************************************)
\* C12: the generated name is the sanitized basename, "-" and the first 8
\* hex digits of the path's digest; it is the same on every call, uses only
\* [A-Za-z0-9._-], and differs between two paths with the same basename
\* whenever their digest prefixes differ.
C12_NameShape ==
    gnName # <<>> =>
        LET b == Base(gnPath)
            n == Len(gnName)
        IN  /\ n = Len(b) + 1 + ShortHashLen
            /\ \A i \in 1..Len(b) :
                  gnName[i] = IF b[i] \in NameChars THEN b[i] ELSE "_"
            /\ gnName[Len(b) + 1] = "-"
            /\ SubSeq(gnName, Len(b) + 2, n) = ShortHash(gnPath)
            /\ \A i \in (Len(b) + 2)..n : \E k \in 1..16 : gnName[i] = HexDigits[k]
            /\ \A i \in 1..n : gnName[i] \in NameChars
            /\ GenerateSandboxName(gnPath) = gnName
            /\ \A q \in Paths :
                  (q # gnPath /\ Base(q) = b /\ ShortHash(q) # ShortHash(gnPath))
                      => GenerateSandboxName(q) # gnName

C12_Witness ==
    /\ gnName # <<>>
    /\ \E i \in 1..Len(Base(gnPath)) : Base(gnPath)[i] \notin NameChars
    /\ \E q \in Paths : q # gnPath /\ Base(q) = Base(gnPath) /\ ShortHash(q) # ShortHash(gnPath)

(***************************************************************************)
(* Git adapter claims.                                                     *)
(***************************************************************************)
\* Key k is set in the [user] section of the file: the nearest section
\* header above the line is [user].
InUserSection(file, k) ==
    \E i \in 1..Len(file) :
        /\ file[i].kind = "kv" /\ file[i].key = k
        /\ \E h \in 1..(i - 1) :
              /\ file[h] = Section("user")
              /\ \A j \in (h + 1)..(i - 1) : file[j].kind = "kv"
HasKey(file, k) == \E i \in 1..Len(file) : file[i].kind = "kv" /\ file[i].key = k

CredentialPaths == {Home \o <<".git-credentials">>, Home \o <<".ssh">>, Home \o <<".gnupg">>}
BindingSet(bs) == {bs[i] : i \in 1..Len(bs)}

\* C18: Configure selects read-write only for readwrite, read-write and rw
\* in any letter case, disabled for disabled, none and off, read-only
\* otherwise; outside read-write mode no binding touches .git-credentials,
\* .ssh or .gnupg and nothing is imported from the host; in read-write mode
\* the bindings are .gitconfig writable and those three read-only, all
\* optional, and the environment is SSH_AUTH_SOCK and GPG_TTY from the host.
C18_CredentialsOnlyReadWrite ==
    /\ gMode # "" =>
          gMode = IF gRaw \in {"readwrite", "read-write", "rw", "READWRITE", "Rw"} THEN "readwrite"
                  ELSE IF gRaw \in {"disabled", "none", "off", "DISABLED"} THEN "disabled"
                  ELSE "readonly"
    /\ (gOut.called /\ gMode # "readwrite") =>
          /\ \A b \in BindingSet(gOut.bindings) :
                b.src \notin CredentialPaths /\ b.dest \notin CredentialPaths
          /\ gOut.env = {}
    /\ (gOut.called /\ gMode = "readwrite") =>
          /\ BindingSet(gOut.bindings) =
                {Binding(Home \o <<".gitconfig">>, <<>>, FALSE, TRUE)}
                   \cup {Binding(p, <<>>, TRUE, TRUE) : p \in CredentialPaths}
          /\ Len(gOut.bindings) = 4
          /\ gOut.env = {[name |-> n, fromHost |-> TRUE] : n \in {"SSH_AUTH_SOCK", "GPG_TTY"}}

C18_Witness ==
    /\ gOut.called /\ gRaw = "Rw" /\ gMode = "readwrite"
    /\ \E b \in BindingSet(gOut.bindings) : b.src = Home \o <<".ssh">>

(***************************************************************************)
(* Server shutdown claims.                                                 *)
(***************************************************************************)
InFlight(s) == {r \in Requests : rqSrv[r] = s /\ rqPc[r] \in {"forwarded", "responding"}}

\* C14: Stop closes the log sink only after the requests in flight have
\* finished, so that a request accepted before Stop never has its record
\* written to a sink that is already closed.
C14_SinkClosedAfterDrain ==
    [][\A s \in Servers :
          (snk[s].st = "open" /\ snk'[s].st = "closed") => InFlight(s) = {}]_vars

\* C15: Start and Stop are serialized by the server mutex, and no read of the
\* running flag, the configured port or the listener made by IsRunning, Port,
\* Addr or CA can happen at the same time as a write Start or Stop makes to
\* the same field: no two threads are ever both about to access one field
\* with one of the accesses a write.
C15_NoDataRace ==
    \A t1, t2 \in Threads :
        t1 # t2 =>
            /\ ~(tOp[t1] \in {"Start", "Stop"} /\ tOp[t2] \in {"Start", "Stop"}
                 /\ tPc[t1] > 1 /\ tPc[t2] > 1)
            /\ ~(/\ NextStep(t1).kind = "write"
                 /\ NextStep(t2).kind \in {"read", "write"}
                 /\ NextStep(t1).loc = NextStep(t2).loc)

(***************************************************************************)
(* Rotating log sink: Close and Write.                                     *)
(***************************************************************************)
\* The payloads written through the sink that decompressing the files yields.
Readable(files) ==
    UNION {{files[i].recs[k] : k \in 1..Len(files[i].recs)} \ {0} : i \in 1..Len(files)}
FileOf(files, idx) == files[CHOOSE k \in 1..Len(files) : files[k].idx = idx]

\* C16 as stated: after Close every Write fails with an error, returns 0 and
\* writes nothing; and every payload accepted by a successful Write stays
\* readable from the files.
C16_ClosedRejectsAllReadable ==
    [][ /\ rfw.st = "closed" =>
            /\ rfw'.files = rfw.files
            /\ rfwOps' # rfwOps => rfwRet' = [n |-> 0, err |-> TRUE]
        /\ Readable(rfw.files) \subseteq Readable(rfw'.files) ]_vars

\* C16 amended: after Close every Write fails with an error, returns 0 and
\* writes nothing; Close itself leaves the files as the writes made them; and
\* every payload accepted by a successful Write stays readable for as long as
\* its file exists, a payload being lost only with a whole file that a
\* rotation prunes.
C16_ClosedRejectsSurvivorsReadable ==
    [][ /\ rfw.st = "closed" =>
            /\ rfw'.files = rfw.files
            /\ rfwOps' # rfwOps => rfwRet' = [n |-> 0, err |-> TRUE]
        /\ (rfw.st = "open" /\ rfw'.st = "closed") => rfw'.files = rfw.files
        /\ \A i \in 1..Len(rfw.files) :
              Survives(rfw.files[i], rfw'.files) =>
                  LET f == rfw.files[i]
                      g == FileOf(rfw'.files, f.idx)
                  IN  Len(g.recs) >= Len(f.recs) /\ SubSeq(g.recs, 1, Len(f.recs)) = f.recs
        /\ ~(Readable(rfw.files) \subseteq Readable(rfw'.files)) =>
              rfw.st = "open" /\ rfw'.cur # rfw.cur /\ Len(rfw'.files) = rfw.maxFiles ]_vars

\* A Write after Close was refused while payloads written before Close are
\* readable from more than one file.
C16_Witness ==
    /\ rfw.st = "closed"
    /\ rfwRet = [n |-> 0, err |-> TRUE]
    /\ \E i, j \in 1..Len(rfw.files) :
          i # j /\ Readable(<<rfw.files[i]>>) # {} /\ Readable(<<rfw.files[j]>>) # {}

(***************************************************************************)
(* Ask mode.                                                               *)
(***************************************************************************)
\* ask_timeout_s: the configured seconds, 30 when the configuration has none.
AskDeadline == IF fcfg.askTimeout > 0 THEN fcfg.askTimeout ELSE DefaultAskTimeout
\* The step that ends an ask the asker did not answer within ask_timeout_s.
Expires(r) ==
    /\ rqPc[r] = "asking"
    /\ rqWait[r] >= AskDeadline
    /\ <<rqPc[r], rqDec[r], rqWait[r]>>' # <<rqPc[r], rqDec[r], rqWait[r]>>
\* The request is decided by the configured default: 403 for block, sent
\* upstream for allow, and no longer suspended.
DecidedByDefault(r) ==
    /\ rqDec'[r].action = fcfg.defaultAction
    /\ rqDec'[r].isDefault
    /\ rqPc'[r] # "asking"
    /\ fcfg.defaultAction = "block" =>
          rqResp'[r].status = 403 /\ ~rqFwd'[r] /\ rqPc'[r] = "responding"
    /\ fcfg.defaultAction = "allow" => rqFwd'[r] /\ rqPc'[r] = "forwarded"

StartFailures == {"listen failed", "no available port"}
\* The candidate port of the attempt in progress is taken.
CandidateInUse(s) ==
    IF stPort[s] = 0 THEN EphemeralPorts \subseteq PortsInUse ELSE stPort[s] \in PortsInUse

\* C19: a Start that fails returns an error and leaves the server not
\* running, its listener as it was and not open, and its configured port
\* unchanged.  It fails either on a bind error other than EADDRINUSE, at once
\* and whatever attempts remain, or after MaxPortRetries attempts that each
\* found its candidate port in use; the search moves to the next port only
\* past a port that is in use.
C19_FailedStartLeavesStopped ==
    /\ [](\A s \in Servers :
            (stPc[s] = "idle" /\ srvErr[s] \in StartFailures) =>
                /\ ~running[s] /\ ~lsn[s].open /\ cfgPort[s] = stBase[s]
                /\ srvErr[s] = "listen failed" => stI[s] < MaxPortRetries
                /\ srvErr[s] = "no available port" =>
                      stI[s] = MaxPortRetries /\ stPort[s] = stBase[s] + MaxPortRetries)
    /\ [][\A s \in Servers :
            /\ (stPc[s] = "binding" /\ srvErr'[s] \in StartFailures) =>
                  /\ stPc'[s] = "idle"
                  /\ lsn'[s] = lsn[s] /\ running'[s] = running[s] /\ cfgPort'[s] = cfgPort[s]
                  /\ srvErr'[s] = "listen failed" => stI'[s] = stI[s]
            /\ (stPc[s] = "binding" /\ stI'[s] # stI[s]) =>
                  stI'[s] = stI[s] + 1 /\ CandidateInUse(s)]_vars

\* One server gave up after finding every candidate port in use, another
\* failed on its second attempt with an error that is not EADDRINUSE, and a
\* failed server still has the closed listener of an earlier run.
C19_Witness ==
    \E s, t \in Servers :
        /\ stPc[s] = "idle" /\ srvErr[s] = "no available port"
        /\ stPc[t] = "idle" /\ srvErr[t] = "listen failed" /\ stI[t] = 1
        /\ \E u \in {s, t} : lsn[u] # NoListener

(***************************************************************************)
(* Rotating log sink: rotation on Write.                                   *)
(***************************************************************************)
\* The files written through the sink, those left by earlier runs set aside.
SinkFiles(files) == SelectSeq(files, LAMBDA f : 0 \notin {f.recs[k] : k \in 1..Len(f.recs)})

\* C20: a successful Write of n bytes returns n; it rotates exactly when the
\* bytes written to the current file plus n exceed max_size, and then the
\* new file holds the whole payload and nothing else; otherwise the payload
\* is appended whole to the current file; no other file changes.  After any
\* sequence of writes every file holds at most max_size bytes unless it
\* holds a single payload larger than max_size.
C20_WholePayloadRotation ==
    /\ [](\A i \in 1..Len(SinkFiles(rfw.files)) :
            LET f == SinkFiles(rfw.files)[i]
            IN  f.bytes <= rfw.maxSize \/ Len(f.recs) = 1)
    /\ [][(rfw.st = "open" /\ rfwOps' # rfwOps) =>
            LET rec == rfwOps'
                n == rfwRet'.n
                cur == FileOf(rfw'.files, rfw'.cur)
            IN  /\ ~rfwRet'.err /\ n \in 1..MaxPayload
                /\ (rfw'.cur # rfw.cur) <=> (rfw.written + n > rfw.maxSize)
                /\ rfw'.cur # rfw.cur =>
                      /\ rfw'.cur = FindNextIndex(rfw.files)
                      /\ cur.recs = <<rec>> /\ cur.bytes = n /\ rfw'.written = n
                /\ rfw'.cur = rfw.cur =>
                      /\ cur.recs = Append(FileOf(rfw.files, rfw.cur).recs, rec)
                      /\ cur.bytes = FileOf(rfw.files, rfw.cur).bytes + n
                      /\ rfw'.written = rfw.written + n
                /\ \A k \in 1..Len(rfw'.files) :
                      rfw'.files[k].idx # rfw'.cur =>
                          /\ rec \notin Readable(<<rfw'.files[k]>>)
                          /\ \E j \in 1..Len(rfw.files) : rfw.files[j] = rfw'.files[k]]_vars

\* One file holds a single payload larger than max_size and another holds
\* two payloads that fit together.
C20_Witness ==
    \E i, j \in 1..Len(rfw.files) :
        /\ Len(rfw.files[i].recs) = 1 /\ rfw.files[i].recs[1] # 0
        /\ rfw.files[i].bytes > rfw.maxSize
        /\ Len(rfw.files[j].recs) = 2 /\ rfw.files[j].bytes <= rfw.maxSize

(***************************************************************************)
(* Log file names.                                                         *)
(***************************************************************************)
\* C21: every file a logger opens gets the index 1 + the largest index of
\* today's files in the directory, so its name is not the name of a file
\* that is already there, whatever older files were deleted and however
\* many loggers were started on the directory.
C21_FreshLogName ==
    [][\A l \in Loggers :
          (rlPc[l] = "found" /\ rlPc'[l] = "open") =>
              /\ rlIndex[l] \notin rlDir
              /\ rlIndex[l] = 1 + SetMax({0} \cup rlDir)]_vars

(***************************************************************************)
(* Rotating log sink: what is left after pruning.                          *)
(***************************************************************************)
RECURSIVE Concat(_)
Concat(files) == IF files = <<>> THEN <<>> ELSE Head(files).recs \o Concat(Tail(files))

\* C22: after more than max_files rotations (the index of the current file
\* is then past max_files plus the files that were there before), the
\* directory holds exactly max_files files, also after Close; they are files
\* of this sink, the most recently created ones, indices cur - max_files + 1
\* .. cur in creation order; and their contents concatenated in that order
\* are the payloads written since the oldest of them was opened, in write
\* order and up to the last write.
C22_PrunedKeepsNewest ==
    /\ [](( /\ rfw.st \in {"open", "closed"}
            /\ rfw.cur > rfw.maxFiles + MaxPreexisting ) =>
            LET all == Concat(rfw.files)
            IN  /\ Len(rfw.files) = rfw.maxFiles
                /\ SinkFiles(rfw.files) = rfw.files
                /\ \A i \in 1..Len(rfw.files) : rfw.files[i].idx = rfw.cur - rfw.maxFiles + i
                /\ \A k \in 1..(Len(all) - 1) : all[k + 1] = all[k] + 1
                /\ \A i \in 2..Len(rfw.files) : rfw.files[i].recs # <<>>
                /\ rfw.st = "open" => all # <<>> /\ all[Len(all)] = rfwOps)
    /\ [][(rfw.st = "open" /\ rfw'.st = "closed") => rfw'.files = rfw.files]_vars

\* Four writes that each rotated, then Close: of the five files the sink
\* created the last two are left, holding the last two payloads.
C22_Witness ==
    /\ rfw.st = "closed"
    /\ rfw.maxFiles = 2
    /\ rfw.cur >= MaxWrites + 1
    /\ Len(rfw.files) = 2
    /\ Concat(rfw.files) = <<MaxWrites - 1, MaxWrites>>

(***************************************************************************)
(* Order and wholeness of log records.                                     *)
(***************************************************************************)
\* C23: the records of one connection are appended in the order of its
\* requests, and every record is written as one whole line: its two parts
\* are next to each other in the stream, no part of another record between.
C23_OrderedWholeLines ==
    /\ \A i, j \in 1..Len(logOut) :
          (i < j /\ logOut[i].conn = logOut[j].conn) => logOut[i].k <= logOut[j].k
    /\ \A i \in 1..Len(logOut) :
          /\ (logOut[i].half = 1 /\ i < Len(logOut)) =>
                logOut[i + 1] = [logOut[i] EXCEPT !.half = 2]
          /\ logOut[i].half = 2 =>
                i > 1 /\ logOut[i - 1] = [logOut[i] EXCEPT !.half = 1]

(***************************************************************************)
(* Decision cache.                                                         *)
(***************************************************************************)
CacheOn == ckCfg.cacheDecisions \in {"nil", "true"}
Asking(k) == {r \in Requests : ckPc[r] = "asking" /\ KeyOf(r) = k}

\* C24: with cache_decisions true (the default) at most one ask per cache
\* key is in flight at any time; a cached decision is never replaced or
\* dropped during the run, and every request that reaches the ask step with
\* a cached key, at once or after waiting, gets the cached decision without
\* the asker being invoked; with cache_decisions false nothing is cached.
C24_OneAskPerKeyThenCached ==
    /\ [](CacheOn => \A k \in CacheKeys : Cardinality(Asking(k)) <= 1)
    /\ [](~CacheOn => \A k \in CacheKeys : ckCache[k] = "")
    /\ [][CacheOn =>
            /\ \A k \in CacheKeys : ckCache[k] # "" => ckCache'[k] = ckCache[k]
            /\ \A r \in Requests :
                  (ckPc[r] \in {"new", "waiting"} /\ ckPc'[r] # ckPc[r]
                   /\ ckCache[CacheKey(ckCfg.scope, ckReq'[r])] # "") =>
                      /\ ckPc'[r] = "done"
                      /\ ckDec'[r] = [action |-> ckCache[CacheKey(ckCfg.scope, ckReq'[r])],
                                      by |-> "cache"]]_vars

\* With the default configuration two requests for one host but different
\* paths arrived together: the asker was invoked for one, the other waited
\* and then got the cached answer.
C24_Witness ==
    \E r, o \in Requests :
        /\ ckCfg.cacheDecisions = "nil" /\ ckCfg.scope = "host"
        /\ ckReq[r].path # ckReq[o].path
        /\ ckDec[r] = [action |-> "block", by |-> "asker"]
        /\ ckDec[o] = [action |-> "block", by |-> "cache"]
        /\ ckPc[r] = "done" /\ ckPc[o] = "done"

(***************************************************************************)
(* Sandbox identity across runs.                                           *)
(***************************************************************************)
\* C25: across the runs from one project directory NewConfig resolves one
\* sandbox name: a sandbox whose metadata names the project, whatever it is
\* called, when there is one, else the generated hashed name; the first
\* EnsureSandboxDirs that can write persists metadata naming the project;
\* and no EnsureSandboxDirs changes existing metadata except last_used_at,
\* which stays as it was when the update fails.
C25_StableSandboxName ==
    /\ [](\A p \in ProjectDirs : Cardinality(sbNames[p]) <= 1)
    /\ [](sbRun # NoRun =>
            IF \E n \in SandboxNames : MetaMatches(n, sbRun.dir)
            THEN MetaMatches(sbRun.name, sbRun.dir)
            ELSE sbRun.name = LegacyName(sbRun.dir) \o <<"-">> \o ShortHash(sbRun.dir))
    /\ [][\A n \in SandboxNames :
            /\ sbMeta[n] # NoMeta =>
                  /\ [sbMeta'[n] EXCEPT !.lastUsed = sbMeta[n].lastUsed] = sbMeta[n]
                  /\ sbMeta'[n].lastUsed \in {sbMeta[n].lastUsed, sbClock}
            /\ (sbMeta[n] = NoMeta /\ sbMeta'[n] # NoMeta) =>
                  /\ n = sbRun.name
                  /\ sbMeta'[n] = [projectDir |-> sbRun.dir, projectName |-> n,
                                   createdAt |-> sbClock, lastUsed |-> sbClock]]_vars

\* One project kept its sandbox under the plain basename through its
\* metadata; the other, with the same basename, got the hashed name on its
\* first run and found it again on a later run, which updated last-used.
C25_Witness ==
    \E p, q \in ProjectDirs :
        /\ sbNames[p] = {LegacyName(p)}
        /\ sbNames[q] = {GenerateSandboxName(q)}
        /\ sbMeta[GenerateSandboxName(q)].projectDir = q
        /\ sbMeta[GenerateSandboxName(q)].lastUsed > sbMeta[GenerateSandboxName(q)].createdAt
        /\ sbRun = NoRun

(***************************************************************************)
(* Rule validation.                                                        *)
(***************************************************************************)
\* The type in force: the one given, else regex exactly when the pattern
\* holds one of ^ $ | ( ) [ ] { } + \, else glob.
TypeInForce(r) ==
    IF r.type # "" THEN r.type
    ELSE IF \E i \in 1..Len(r.pattern) : r.pattern[i] \in RegexChars THEN "regex" ELSE "glob"
Checked == vErr # "unchecked"

\* C26 as stated: Validate accepts a rule if and only if its pattern is not
\* empty, its action is set and, when the type in force is regex, the
\* pattern compiles.
C26_ValidIff ==
    Checked =>
        (vErr = "" <=>
            /\ vRule.pattern # <<>>
            /\ vRule.action # ""
            /\ TypeInForce(vRule) = "regex" => Compiles(vRule.pattern))

\* C26 amended: Validate accepts a rule if and only if its pattern is not
\* empty, its action is allow, block or ask, its scope is host, path, url or
\* unset, its type is exact, glob, regex or unset and, when the type in
\* force is regex, the pattern compiles.
C26_ValidIff_KnownValues ==
    Checked =>
        (vErr = "" <=>
            /\ vRule.pattern # <<>>
            /\ vRule.action \in {"allow", "block", "ask"}
            /\ vRule.scope \in {"", "host", "path", "url"}
            /\ vRule.type \in {"", "exact", "glob", "regex"}
            /\ TypeInForce(vRule) = "regex" => Compiles(vRule.pattern))

\* Validate refused a rule with no type whose pattern has an unclosed group,
\* which makes it a regex that does not compile.
C26_Witness ==
    /\ vErr = "invalid regex pattern"
    /\ vRule.type = ""
    /\ vRule.pattern = <<"(", "a">>

(***************************************************************************)
(* The signing CA.                                                         *)
(***************************************************************************)
\* C27: every leaf certificate minted for a client of a server is signed by
\* the CA that server loaded at construction (the one its CA() returns),
\* also after another server with a different CA was constructed.
C27_LeafSignedByOwnCa ==
    \A l \in leaves : l[2] = srvCa[l[1]]

(***************************************************************************)
(* Session start against concurrent probes.                                *)
(***************************************************************************)
\* A call of AcquireSessionLock by session s returns in this step.
AcquireReturns(s) ==
    \/ sPc[s] = "idle" /\ sRes'[s] = "openerr" /\ sPc'[s] = "idle"
    \/ sPc[s] = "opened" /\ sPc'[s] # "opened"

\* C28: on an accessible sandbox root every call of AcquireSessionLock that
\* returns has succeeded, whatever IsSessionActive probes run beside it.
C28_AcquireNeverFails ==
    [][\A s \in Sessions :
          (rootOk /\ AcquireReturns(s)) => (sRes'[s] = "ok" /\ sPc'[s] = "held")]_vars

(***************************************************************************)
(* The sink of a running server.                                           *)
(***************************************************************************)
\* C29: while a server is running its request log sink is open, after any
\* sequence of Start and Stop calls; and Stop on a server that is not
\* running changes nothing of the server.
C29_RunningSinkOpen ==
    /\ [](\A s \in Servers : IsRunning(s) => snk[s].st = "open")
    /\ [][\A s \in Servers :
             (~IsRunning(s) /\ srvErr'[s] = "stop: not running" /\ srvErr[s] # srvErr'[s])
                 => UNCHANGED <<running, lsn, snk, cfgPort>>]_vars

(***************************************************************************)
(* Egress restriction in proxy mode.                                       *)
(***************************************************************************)
\* Destinations of a connection from inside the namespace.
Destinations == {GatewayIP, "203.0.113.7"}
\* The OUTPUT chain lets a packet to d pass: the first rule that matches d
\* decides, and the chain's policy is to accept.
RECURSIVE Passes(_, _)
Passes(rules, d) ==
    IF rules = <<>> THEN TRUE
    ELSE IF Head(rules).dest \in {d, "any"} THEN Head(rules).target = "ACCEPT"
    ELSE Passes(Tail(rules), d)

\* C30: in proxy mode, when either firewall rule of the wrapper fails to
\* install the sandbox primitive is not executed, and the sandboxed program
\* never runs while a destination other than the gateway can be reached.
C30_NoRunWithoutEgressRestriction ==
    (nCmd.mode = "proxy" /\ nPc = "sandboxed") =>
        /\ nEnv.iptAccept /\ nEnv.iptReject
        /\ \A d \in Destinations : Passes(nRules, d) => d = GatewayIP

====
